---- MODULE Spec2Model ----
(***************************************************************************)
(* A model of linux-core/drm_proc.c: the /proc/dri/<minor>/ report          *)
(* generators (the read_proc callbacks), the paginated read protocol they   *)
(* implement, and the registration and removal of the proc entries.         *)
(*                                                                          *)
(* Bytes are TLA+ strings: Len, \o and SubSeq act on them as on sequences.  *)
(* A read_proc callback  f(buf, start, offset, request, eof, data)  is an   *)
(* operator on (dev, offset, request) whose value is the record            *)
(*   [ret, eof, buf, walked, locked]                                        *)
(* ret: the int returned; eof: *eof; buf: what was written to buf;          *)
(* walked: how many elements of a device collection were visited;           *)
(* locked: whether the body ran under dev->struct_mutex.                    *)
(***************************************************************************)
EXTENDS Integers, Sequences, FiniteSets, TLC

VARIABLES
    dev,        \* struct drm_device: the state the generators read
    call,       \* the last read_proc call and what it returned
    sess,       \* a reader fetching one report in chunks of k bytes
    minors,     \* struct drm_minor, per minor: dev_root and index
    ents,       \* the proc entries under the DRI proc root, newest first
    hist,       \* per minor: what the last init or cleanup on it was
    last,       \* the last drm_proc_init or drm_proc_cleanup and what it did
    debug_code, \* DRM_DEBUG_CODE of the build
    mutex,      \* dev->struct_mutex: 0 when free, else the holder
    gen         \* a read_proc call in progress, statement by statement

vars == <<dev, call, sess, minors, ents, hist, last, debug_code, mutex, gen>>

procVars == <<minors, ents, hist, last, debug_code>>
lockVars == <<mutex, gen>>

----------------------------------------------------------------------------
(* Sizes.  PAGE_SIZE is the architecture's page size; the model runs on a  *)
(* small page so that a handful of table rows passes DRM_PROC_LIMIT.       *)

PAGE_SHIFT == 9

\* asm/page.h: #define PAGE_SIZE (1UL << PAGE_SHIFT)
PAGE_SIZE == 2 ^ PAGE_SHIFT

\* drmP.h: #define DRM_PROC_LIMIT (PAGE_SIZE-80)
DRM_PROC_LIMIT == PAGE_SIZE - 80

MaxClients == 11
MaxObjs == 14
MaxMaps == 9
MaxQueues == 9
MaxDirs == 2
MaxCalls == 4

----------------------------------------------------------------------------
(* sprintf conversions.                                                    *)

Digit(d) == SubSeq("0123456789", d + 1, d + 1)

RECURSIVE Digits(_)
Digits(n) == IF n < 10 THEN Digit(n) ELSE Digits(n \div 10) \o Digit(n % 10)

\* %d
FmtD(n) == IF n < 0 THEN "-" \o Digits(-n) ELSE Digits(n)

RECURSIVE Spaces(_)
Spaces(n) == IF n <= 0 THEN "" ELSE " " \o Spaces(n - 1)

\* a minimum field width: right-justified, never truncated
Pad(w, s) == Spaces(w - Len(s)) \o s

\* %<w>d
FmtWD(w, n) == Pad(w, FmtD(n))

HexDigit(d) == SubSeq("0123456789abcdef", d + 1, d + 1)

RECURSIVE HexDigits(_)
HexDigits(n) ==
    IF n < 16 THEN HexDigit(n) ELSE HexDigits(n \div 16) \o HexDigit(n % 16)

RECURSIVE Zeros(_)
Zeros(n) == IF n <= 0 THEN "" ELSE "0" \o Zeros(n - 1)

\* %0<w>x and %0<w>lx of a value that is not negative
FmtX(w, n) == Zeros(w - Len(HexDigits(n))) \o HexDigits(n)

\* %<w>.<p>s
FmtWPS(w, p, str) ==
    Pad(w, IF Len(str) > p THEN SubSeq(str, 1, p) ELSE str)

----------------------------------------------------------------------------
(* DRM_PROC_PRINT (drmP.h):                                                *)
(*   len += sprintf(&buf[len], fmt, ...);                                  *)
(*   if (len > DRM_PROC_LIMIT) { *eof = 1; return len - offset; }          *)
(* st is the state of one callback invocation: its locals len and walked,  *)
(* the buffer, *eof, and, once it has returned, the value returned.        *)

ProcStart == [len |-> 0, buf |-> "", eof |-> 0, ret |-> 0,
              returned |-> FALSE, walked |-> 0]

DRM_PROC_PRINT(st, offset, text) ==
    IF st.returned THEN st
    ELSE LET len == st.len + Len(text) IN
         IF len > DRM_PROC_LIMIT
         THEN [st EXCEPT !.len = len, !.buf = @ \o text, !.eof = 1,
                         !.ret = len - offset, !.returned = TRUE]
         ELSE [st EXCEPT !.len = len, !.buf = @ \o text]

\* what the caller of a read_proc callback sees
Result(st, locked) ==
    [ret |-> st.ret, eof |-> st.eof, buf |-> st.buf, walked |-> st.walked,
     locked |-> locked]

\* the test of the offset against DRM_PROC_LIMIT returning 0 without *eof
Ceiling_no_eof(st) == [st EXCEPT !.ret = 0, !.returned = TRUE]

\* if (offset > DRM_PROC_LIMIT) { *eof = 1; return 0; }
Ceiling(st) == [st EXCEPT !.eof = 1, !.ret = 0, !.returned = TRUE]

----------------------------------------------------------------------------
(* "/proc/dri/.../name"                                                    *)

name_line(d) ==
    IF d.unique # <<>>
    THEN d.driver_name \o " " \o d.pci_name \o " " \o d.unique[1] \o "\n"
    ELSE d.driver_name \o " " \o d.pci_name \o "\n"

\* drm_name_info with "*eof = 1" moved above the final test
drm_name_info_eof_first(d, offset, request) ==
    IF offset > DRM_PROC_LIMIT THEN Result(Ceiling(ProcStart), FALSE)
    ELSE LET s1 == DRM_PROC_PRINT(ProcStart, offset, name_line(d)) IN
         Result(IF s1.returned THEN s1
                ELSE IF s1.len > request + offset
                     THEN [s1 EXCEPT !.eof = 1, !.ret = request,
                                     !.returned = TRUE]
                     ELSE [s1 EXCEPT !.eof = 1, !.ret = s1.len - offset,
                                     !.returned = TRUE],
                FALSE)

drm_name_info(d, offset, request) ==
    IF offset > DRM_PROC_LIMIT THEN Result(Ceiling(ProcStart), FALSE)
    ELSE LET s1 == DRM_PROC_PRINT(ProcStart, offset, name_line(d)) IN
         Result(IF s1.returned THEN s1
                ELSE IF s1.len > request + offset
                     THEN [s1 EXCEPT !.ret = request, !.returned = TRUE]
                     ELSE [s1 EXCEPT !.eof = 1, !.ret = s1.len - offset,
                                     !.returned = TRUE],
                FALSE)

----------------------------------------------------------------------------
(* "/proc/dri/.../clients"                                                 *)

clients_header == "a dev\tpid    uid\tmagic\t  ioctls\n\n"

\* "%c %3d %5d %5d %10u %10lu\n"
clients_line(priv) ==
    (IF priv.authenticated # 0 THEN "y" ELSE "n") \o " "
    \o FmtWD(3, priv.minor_index) \o " " \o FmtWD(5, priv.pid) \o " "
    \o FmtWD(5, priv.uid) \o " " \o FmtWD(10, priv.magic) \o " "
    \o FmtWD(10, priv.ioctl_count) \o "\n"

\* list_for_each_entry(priv, &dev->filelist, lhead) DRM_PROC_PRINT(...)
RECURSIVE clients_walk(_, _, _)
clients_walk(st, offset, list) ==
    IF list = <<>> \/ st.returned THEN st
    ELSE clients_walk(DRM_PROC_PRINT([st EXCEPT !.walked = @ + 1], offset,
                                     clients_line(Head(list))),
                      offset, Tail(list))

drm__clients_info(d, offset, request) ==
    IF offset > DRM_PROC_LIMIT THEN Ceiling(ProcStart)
    ELSE LET s1 == DRM_PROC_PRINT(ProcStart, offset, clients_header)
             s2 == clients_walk(s1, offset, d.filelist)
         IN  IF s2.returned THEN s2
             ELSE IF s2.len > request + offset
                  THEN [s2 EXCEPT !.ret = request, !.returned = TRUE]
                  ELSE [s2 EXCEPT !.eof = 1, !.ret = s2.len - offset,
                                  !.returned = TRUE]

\* mutex_lock; ret = drm__clients_info(...); mutex_unlock; return ret
drm_clients_info(d, offset, request) ==
    Result(drm__clients_info(d, offset, request), TRUE)

----------------------------------------------------------------------------
(* "/proc/dri/.../gem_names"                                               *)

gem_names_header == "  name     size handles refcount\n"

\* "%6d%9zd%8d%9d\n"
gem_one_name_line(obj) ==
    FmtWD(6, obj.name) \o FmtWD(9, obj.size) \o FmtWD(8, obj.handlecount)
    \o FmtWD(9, obj.refcount) \o "\n"

\* drm_gem_one_name_info without its test of nid->eof
drm_gem_one_name_info_no_eof(obj, nid) ==
    LET line == gem_one_name_line(obj)
        len == nid.len + Len(line)
    IN  [nid EXCEPT !.len = len, !.buf = @ \o line,
                    !.eof = IF len > DRM_PROC_LIMIT THEN 1 ELSE 0]

\* nid is struct drm_gem_name_info_data, with the bytes of nid->buf
drm_gem_one_name_info(obj, nid) ==
    IF nid.eof # 0 THEN nid
    ELSE LET line == gem_one_name_line(obj)
             len == nid.len + Len(line)
         IN  [nid EXCEPT !.len = len, !.buf = @ \o line,
                         !.eof = IF len > DRM_PROC_LIMIT THEN 1 ELSE 0]

\* idr_for_each(&dev->object_name_idr, drm_gem_one_name_info, &nid)
RECURSIVE idr_for_each(_, _)
idr_for_each(idr, nid) ==
    IF idr = <<>> THEN nid
    ELSE idr_for_each(Tail(idr),
                      [drm_gem_one_name_info(Head(idr), nid)
                           EXCEPT !.walked = @ + 1])

\* "struct drm_gem_name_info_data nid;" is declared without a value: it
\* holds what the calls before left on the stack, be it the struct of a
\* listing that had passed the limit (eof 1) or not (eof 0)
nid_left(eof) ==
    [len |-> IF eof = 0 THEN 0 ELSE DRM_PROC_LIMIT + 1, buf |-> "",
     eof |-> eof, walked |-> 0]

\* the three assignments without "nid.eof = 0"
gem_name_start_eof_left(nid) ==
    [nid EXCEPT !.len = Len(gem_names_header), !.buf = gem_names_header,
                !.walked = 0]

\* nid.len = sprintf(buf, header); nid.buf = buf; nid.eof = 0, on the
\* struct as the stack gives it
gem_name_start(nid) ==
    [nid EXCEPT !.len = Len(gem_names_header), !.buf = gem_names_header,
                !.eof = 0, !.walked = 0]

\* gem_name_finish testing "nid.len > request", the offset forgotten
gem_name_finish_no_offset(nid, offset, request) ==
    IF nid.len > request
    THEN [ret |-> request, eof |-> 0, buf |-> nid.buf, walked |-> nid.walked,
          locked |-> FALSE]
    ELSE [ret |-> nid.len - offset, eof |-> 1, buf |-> nid.buf,
          walked |-> nid.walked, locked |-> FALSE]

\* *start = &buf[offset]; *eof = 0; if (nid.len > request + offset) return
\* request; *eof = 1; return nid.len - offset
gem_name_finish(nid, offset, request) ==
    IF nid.len > request + offset
    THEN [ret |-> request, eof |-> 0, buf |-> nid.buf, walked |-> nid.walked,
          locked |-> FALSE]
    ELSE [ret |-> nid.len - offset, eof |-> 1, buf |-> nid.buf,
          walked |-> nid.walked, locked |-> FALSE]

\* drm_gem_name_info building the listing before it tests the offset
drm_gem_name_info_late_test(d, offset, request) ==
    LET nid == idr_for_each(d.object_name_idr,
                            gem_name_start(nid_left(1))) IN
    IF offset > DRM_PROC_LIMIT
    THEN [ret |-> 0, eof |-> 1, buf |-> nid.buf, walked |-> nid.walked,
          locked |-> FALSE]
    ELSE gem_name_finish(nid, offset, request)

drm_gem_name_info(d, offset, request) ==
    IF offset > DRM_PROC_LIMIT THEN Result(Ceiling(ProcStart), FALSE)
    ELSE gem_name_finish(idr_for_each(d.object_name_idr,
                                      gem_name_start(nid_left(1))),
                         offset, request)

----------------------------------------------------------------------------
(* "/proc/dri/.../gem_objects"                                             *)

\* the text of the n-th print, lines 657 to 662, each reading one field of
\* the device
gem_object_line(d, n) ==
    CASE n = 1 -> FmtD(d.object_count) \o " objects\n"
      [] n = 2 -> FmtD(d.object_memory) \o " object bytes\n"
      [] n = 3 -> FmtD(d.pin_count) \o " pinned\n"
      [] n = 4 -> FmtD(d.pin_memory) \o " pin bytes\n"
      [] n = 5 -> FmtD(d.gtt_memory) \o " gtt bytes\n"
      [] n = 6 -> FmtD(d.gtt_total) \o " gtt total\n"

\* the final test, lines 663 to 666
gem_object_finish(st, offset, request) ==
    IF st.returned THEN st
    ELSE IF st.len > request + offset
         THEN [st EXCEPT !.ret = request, !.returned = TRUE]
         ELSE [st EXCEPT !.eof = 1, !.ret = st.len - offset, !.returned = TRUE]

\* the call with nothing changing the device between its six reads
drm_gem_object_info(d, offset, request) ==
    IF offset > DRM_PROC_LIMIT THEN Result(Ceiling(ProcStart), FALSE)
    ELSE LET s1 == DRM_PROC_PRINT(ProcStart, offset, gem_object_line(d, 1))
             s2 == DRM_PROC_PRINT(s1, offset, gem_object_line(d, 2))
             s3 == DRM_PROC_PRINT(s2, offset, gem_object_line(d, 3))
             s4 == DRM_PROC_PRINT(s3, offset, gem_object_line(d, 4))
             s5 == DRM_PROC_PRINT(s4, offset, gem_object_line(d, 5))
             s6 == DRM_PROC_PRINT(s5, offset, gem_object_line(d, 6))
         IN  Result(gem_object_finish(s6, offset, request), FALSE)

----------------------------------------------------------------------------
(* "/proc/dri/.../vm"                                                      *)
(* An element of dev->maplist is [map, user_token], map being << >> for a  *)
(* null r_list->map and else <<[offset, size, type, flags, mtrr]>>.        *)

vm_header == "slot\t offset\t      size type flags\t address mtrr\n\n"

\* const char *types[] = { "FB", "REG", "SHM", "AGP", "SG", "PCI" }
types == <<"FB", "REG", "SHM", "AGP", "SG", "PCI">>

\* the type tag with the code brought into the table's range, not tested
vm_type_clamped(map) ==
    types[(IF map.type < 0 THEN 0 ELSE IF map.type > 5 THEN 5 ELSE map.type)
          + 1]

\* if (map->type < 0 || map->type > 5) type = "??"; else type = types[...]
vm_type(map) ==
    IF map.type < 0 \/ map.type > 5 THEN "??" ELSE types[map.type + 1]

\* "%4d 0x%08lx 0x%08lx %4.4s  0x%02x 0x%08lx "
vm_line(i, map, user_token) ==
    FmtWD(4, i) \o " 0x" \o FmtX(8, map.offset) \o " 0x" \o FmtX(8, map.size)
    \o " " \o FmtWPS(4, 4, vm_type(map)) \o "  0x" \o FmtX(2, map.flags)
    \o " 0x" \o FmtX(8, user_token) \o " "

\* "none\n" or "%4d\n"
vm_mtrr(map) == IF map.mtrr < 0 THEN "none\n" ELSE FmtWD(4, map.mtrr) \o "\n"

\* list_for_each_entry(r_list, &dev->maplist, head) { ... }
RECURSIVE vm_walk(_, _, _, _)
vm_walk(st, offset, list, i) ==
    IF list = << >> \/ st.returned THEN st
    ELSE LET r_list == Head(list)
             s0 == [st EXCEPT !.walked = @ + 1]
         IN  IF r_list.map = << >> THEN vm_walk(s0, offset, Tail(list), i)
             ELSE LET s1 == DRM_PROC_PRINT(s0, offset,
                                vm_line(i, r_list.map[1], r_list.user_token))
                      s2 == DRM_PROC_PRINT(s1, offset, vm_mtrr(r_list.map[1]))
                  IN  vm_walk(s2, offset, Tail(list), i + 1)

drm__vm_info(d, offset, request) ==
    IF offset > DRM_PROC_LIMIT THEN Ceiling(ProcStart)
    ELSE LET s1 == DRM_PROC_PRINT(ProcStart, offset, vm_header)
             s2 == vm_walk(s1, offset, d.maplist, 0)
         IN  IF s2.returned THEN s2
             ELSE IF s2.len > request + offset
                  THEN [s2 EXCEPT !.ret = request, !.returned = TRUE]
                  ELSE [s2 EXCEPT !.eof = 1, !.ret = s2.len - offset,
                                  !.returned = TRUE]

\* mutex_lock; ret = drm__vm_info(...); mutex_unlock; return ret
drm_vm_info(d, offset, request) ==
    Result(drm__vm_info(d, offset, request), TRUE)

----------------------------------------------------------------------------
(* "/proc/dri/.../queues"                                                  *)
(* The generator changes the device: it takes a reference on each queue    *)
(* while it prints it.  w is [st, qs]: the state of the invocation and     *)
(* dev->queuelist as the invocation has left it so far.  Queue i of the C  *)
(* code is qs[i + 1].                                                      *)

queues_header ==
    "  ctx/flags   use   fin   blk/rw/rwf  wait    flushed\t   queued"
    \o "      locks\n\n"

\* an atomic_inc that leaves the count as it is
atomic_inc_lost(qs, i) == qs

atomic_inc(qs, i) == [qs EXCEPT ![i].use_count = @ + 1]
\* an atomic_dec that leaves the count as it is
atomic_dec_lost(qs, i) == qs

atomic_dec(qs, i) == [qs EXCEPT ![i].use_count = @ - 1]

\* the row with the use count as it was before atomic_inc
queues_line_before_inc(i, q) ==
    FmtWD(5, i) \o "/0x" \o FmtX(3, q.flags) \o " "
    \o FmtWD(5, q.use_count - 1)
    \o " " \o FmtWD(5, q.finalization) \o " " \o FmtWD(5, q.block_count)
    \o "/" \o (IF q.block_read # 0 THEN "r" ELSE "-")
    \o (IF q.block_write # 0 THEN "w" ELSE "-") \o "/"
    \o (IF q.read_queue # 0 THEN "r" ELSE "-")
    \o (IF q.write_queue # 0 THEN "w" ELSE "-")
    \o (IF q.flush_queue # 0 THEN "f" ELSE "-")
    \o " " \o FmtWD(5, q.waitlist) \o "\n"

\* "%5d/0x%03x %5d %5d %5d/%c%c/%c%c%c %5Zd\n"
queues_line(i, q) ==
    FmtWD(5, i) \o "/0x" \o FmtX(3, q.flags) \o " " \o FmtWD(5, q.use_count)
    \o " " \o FmtWD(5, q.finalization) \o " " \o FmtWD(5, q.block_count)
    \o "/" \o (IF q.block_read # 0 THEN "r" ELSE "-")
    \o (IF q.block_write # 0 THEN "w" ELSE "-") \o "/"
    \o (IF q.read_queue # 0 THEN "r" ELSE "-")
    \o (IF q.write_queue # 0 THEN "w" ELSE "-")
    \o (IF q.flush_queue # 0 THEN "f" ELSE "-")
    \o " " \o FmtWD(5, q.waitlist) \o "\n"

\* the print of a queue by DRM_PROC_PRINT, which runs nothing before it
\* returns
queues_print_no_ret(w, offset, i) ==
    [w EXCEPT !.st = DRM_PROC_PRINT(@, offset, queues_line(i - 1, w.qs[i]))]

\* DRM_PROC_PRINT_RET(atomic_dec(&q->use_count), fmt, ...): as
\* DRM_PROC_PRINT, with the atomic_dec run before the early return
queues_print(w, offset, i) ==
    LET s == DRM_PROC_PRINT(w.st, offset, queues_line(i - 1, w.qs[i])) IN
    [st |-> s, qs |-> IF s.returned THEN atomic_dec(w.qs, i) ELSE w.qs]

\* one pass of the loop: lines 317 to 335
queues_iter(w, offset, i) ==
    LET w1 == [st |-> [w.st EXCEPT !.walked = @ + 1],
               qs |-> atomic_inc(w.qs, i)]
        w2 == queues_print(w1, offset, i)
    IN  IF w2.st.returned THEN w2 ELSE [w2 EXCEPT !.qs = atomic_dec(@, i)]

\* for (i = 0; i < dev->queue_count; i++)
RECURSIVE queues_walk(_, _, _)
queues_walk(w, offset, i) ==
    IF i > Len(w.qs) \/ w.st.returned THEN w
    ELSE queues_walk(queues_iter(w, offset, i), offset, i + 1)

\* the final test, lines 338 to 341
queues_finish(st, offset, request) ==
    IF st.returned THEN st
    ELSE IF st.len > request + offset
         THEN [st EXCEPT !.ret = request, !.returned = TRUE]
         ELSE [st EXCEPT !.eof = 1, !.ret = st.len - offset, !.returned = TRUE]

\* the invocation and the queues once the walk is through
queues_body(d, offset) ==
    queues_walk([st |-> DRM_PROC_PRINT(ProcStart, offset, queues_header),
                 qs |-> d.queuelist], offset, 1)

drm__queues_info(d, offset, request) ==
    IF offset > DRM_PROC_LIMIT THEN Ceiling(ProcStart)
    ELSE queues_finish(queues_body(d, offset).st, offset, request)

\* dev->queuelist when drm__queues_info has returned
queues_after(d, offset) ==
    IF offset > DRM_PROC_LIMIT THEN d.queuelist
    ELSE queues_body(d, offset).qs

\* mutex_lock; ret = drm__queues_info(...); mutex_unlock; return ret
drm_queues_info(d, offset, request) ==
    Result(drm__queues_info(d, offset, request), TRUE)

----------------------------------------------------------------------------
(* "/proc/dri/.../bufs"                                                    *)
(* dev->dma is << >> for a null pointer and else <<[bufs, buflist]>>:      *)
(* bufs[i] for each order i in 0 .. DRM_MAX_ORDER, and buflist the buffers *)
(* themselves, dma->buf_count being their number.                          *)

\* drmP.h: #define DRM_MAX_ORDER 22
DRM_MAX_ORDER == 22

bufs_header == " o     size count  free\t segs pages    kB\n\n"

\* the bits of a long and of an unsigned long: 32 on the ILP32 builds of
\* the module, such as 32-bit ARM and x86
BITS_PER_LONG == 32

\* dma->bufs[i].seg_count * (1 << dma->bufs[i].page_order), an int; the
\* pools read here keep it below 2^31
bufs_pages(e) == e.seg_count * (2 ^ e.page_order)

\* (seg_count * (1 << page_order)) * PAGE_SIZE / 1024.  PAGE_SIZE is an
\* unsigned long, so the product is taken in unsigned long and keeps its
\* low BITS_PER_LONG bits; PAGE_SIZE being 2^PAGE_SHIFT, these are the low
\* BITS_PER_LONG - PAGE_SHIFT bits of the page count, shifted left by
\* PAGE_SHIFT.  The division by 1024 = 2^10 shifts them right by 10; the
\* two shifts are taken as one, the product itself being beyond the
\* integers TLC computes with.  "%5ld" reads the result as a long: it is
\* below 2^(BITS_PER_LONG - 10), so never negative.
bufs_kb(e) ==
    LET kept == bufs_pages(e) % (2 ^ (BITS_PER_LONG - PAGE_SHIFT))
    IN  IF PAGE_SHIFT >= 10 THEN kept * (2 ^ (PAGE_SHIFT - 10))
        ELSE kept \div (2 ^ (10 - PAGE_SHIFT))

\* "%2d %8d %5d %5d %5d %5d %5ld\n"
bufs_line(i, e) ==
    FmtWD(2, i) \o " " \o FmtWD(8, e.buf_size) \o " "
    \o FmtWD(5, e.buf_count) \o " " \o FmtWD(5, e.freelist_count) \o " "
    \o FmtWD(5, e.seg_count) \o " " \o FmtWD(5, bufs_pages(e)) \o " "
    \o FmtWD(5, bufs_kb(e)) \o "\n"

\* the loop over the orders without its test of buf_count
RECURSIVE bufs_orders_every_order(_, _, _, _)
bufs_orders_every_order(st, offset, dma, i) ==
    IF i > DRM_MAX_ORDER \/ st.returned THEN st
    ELSE bufs_orders_every_order(
             DRM_PROC_PRINT([st EXCEPT !.walked = @ + 1], offset,
                            bufs_line(i, dma.bufs[i])),
             offset, dma, i + 1)

\* for (i = 0; i <= DRM_MAX_ORDER; i++) if (dma->bufs[i].buf_count) ...
RECURSIVE bufs_orders(_, _, _, _)
bufs_orders(st, offset, dma, i) ==
    IF i > DRM_MAX_ORDER \/ st.returned THEN st
    ELSE bufs_orders(IF dma.bufs[i].buf_count # 0
                     THEN DRM_PROC_PRINT([st EXCEPT !.walked = @ + 1], offset,
                                         bufs_line(i, dma.bufs[i]))
                     ELSE st,
                     offset, dma, i + 1)

\* the passes i to n - 1 of the loop "for (i = 0; i < dma->buf_count; i++)
\* { if (i && !(i % 32)) DRM_PROC_PRINT("\n"); DRM_PROC_PRINT(" %d", ...) }";
\* buflist[i] of the C code is dma.buflist[i + 1]
RECURSIVE bufs_list_passes(_, _, _, _, _)
bufs_list_passes(st, offset, dma, i, n) ==
    IF i >= n \/ st.returned THEN st
    ELSE LET s1 == IF i # 0 /\ i % 32 = 0
                   THEN DRM_PROC_PRINT(st, offset, "\n") ELSE st
         IN  bufs_list_passes(DRM_PROC_PRINT(s1, offset,
                                  " " \o FmtD(dma.buflist[i + 1].list)),
                              offset, dma, i + 1, n)

\* the loop from pass i on, taken 32 passes at a time
RECURSIVE bufs_list(_, _, _, _)
bufs_list(st, offset, dma, i) ==
    IF i >= Len(dma.buflist) \/ st.returned THEN st
    ELSE bufs_list(bufs_list_passes(st, offset, dma, i,
                                    IF i + 32 < Len(dma.buflist) THEN i + 32
                                    ELSE Len(dma.buflist)),
                   offset, dma, i + 32)

drm__bufs_info(d, offset, request) ==
    IF d.dma = << >> \/ offset > DRM_PROC_LIMIT THEN Ceiling(ProcStart)
    ELSE LET dma == d.dma[1]
             s1 == DRM_PROC_PRINT(ProcStart, offset, bufs_header)
             s2 == bufs_orders(s1, offset, dma, 0)
             s3 == DRM_PROC_PRINT(s2, offset, "\n")
             s4 == bufs_list(s3, offset, dma, 0)
             s5 == DRM_PROC_PRINT(s4, offset, "\n")
         IN  IF s5.returned THEN s5
             ELSE IF s5.len > request + offset
                  THEN [s5 EXCEPT !.ret = request, !.returned = TRUE]
                  ELSE [s5 EXCEPT !.eof = 1, !.ret = s5.len - offset,
                                  !.returned = TRUE]

\* mutex_lock; ret = drm__bufs_info(...); mutex_unlock; return ret
drm_bufs_info(d, offset, request) ==
    Result(drm__bufs_info(d, offset, request), TRUE)

----------------------------------------------------------------------------
(* "/proc/dri/.../objects"                                                 *)
(* d.fm and d.bm are dev->fm and dev->bm; d.memctl is what                 *)
(* drm_query_memctl stores through its five pointers.                      *)

\* x >> PAGE_SHIFT
InPages(x) == x \div (2 ^ PAGE_SHIFT)

\* the used object memory rendered in pages from 16 pages on
objects_used_mem_ge(used_mem) ==
    IF used_mem >= 16 * PAGE_SIZE
    THEN "Used object memory is " \o FmtD(InPages(used_mem)) \o " pages.\n"
    ELSE "Used object memory is " \o FmtD(used_mem) \o " bytes.\n"

\* lines 488 to 494
objects_used_mem(used_mem) ==
    IF used_mem > 16 * PAGE_SIZE
    THEN "Used object memory is " \o FmtD(InPages(used_mem)) \o " pages.\n"
    ELSE "Used object memory is " \o FmtD(used_mem) \o " bytes.\n"

\* lines 495 to 501
objects_used_emer(used_emer) ==
    IF used_emer > 16 * PAGE_SIZE
    THEN "Used emergency memory is " \o FmtD(InPages(used_emer))
         \o " pages.\n"
    ELSE "Used emergency memory is " \o FmtD(used_emer) \o " bytes.\n\n"

drm__objects_info(d, offset, request) ==
    IF offset > DRM_PROC_LIMIT THEN Ceiling(ProcStart)
    ELSE LET P(st, text) == DRM_PROC_PRINT(st, offset, text)
             s1 == P(ProcStart, "Object accounting:\n\n")
             s2 == IF d.fm.initialized # 0
                   THEN P(s1, "Number of active fence objects: "
                              \o FmtD(d.fm.count) \o ".\n")
                   ELSE P(s1, "Fence objects are not supported by this "
                              \o "driver\n")
             s3 == IF d.bm.initialized # 0
                   THEN P(s2, "Number of active buffer objects: "
                              \o FmtD(d.bm.count) \o ".\n\n")
                   ELSE s2
             s4 == P(s3, "Memory accounting:\n\n")
             s5 == IF d.bm.initialized # 0
                   THEN P(s4, "Number of locked GATT pages: "
                              \o FmtD(d.bm.cur_pages) \o ".\n")
                   ELSE P(s4, "Buffer objects are not supported by this "
                              \o "driver.\n")
             s6 == P(s5, objects_used_mem(d.memctl.used_mem))
             s7 == P(s6, objects_used_emer(d.memctl.used_emer))
             s8 == P(s7, "Soft object memory usage threshold is "
                         \o FmtD(InPages(d.memctl.low_mem)) \o " pages.\n")
             s9 == P(s8, "Hard object memory usage threshold is "
                         \o FmtD(InPages(d.memctl.high_mem)) \o " pages.\n")
             s10 == P(s9, "Emergency root only memory usage threshold is "
                          \o FmtD(InPages(d.memctl.emer_mem)) \o " pages.\n")
             s11 == P(s10, "\n")
         IN  IF s11.returned THEN s11
             ELSE IF s11.len > request + offset
                  THEN [s11 EXCEPT !.ret = request, !.returned = TRUE]
                  ELSE [s11 EXCEPT !.eof = 1, !.ret = s11.len - offset,
                                   !.returned = TRUE]

\* mutex_lock; ret = drm__objects_info(...); mutex_unlock; return ret
drm_objects_info(d, offset, request) ==
    Result(drm__objects_info(d, offset, request), TRUE)

----------------------------------------------------------------------------
(* The proc file list and the proc filesystem calls made on it.            *)
(* A struct proc_dir_entry is [parent, name, h, read_proc, data]: parent   *)
(* is the handle of its directory, h its own handle when it is itself a    *)
(* directory (0 for a file).  NULL is the null pointer, ROOT the DRI proc  *)
(* root, and device directories take their handles from DirHandles: the    *)
(* memory of a removed directory may be handed out again.                  *)

NULL == 0
ROOT == 1
DirHandles == 2 .. (1 + MaxDirs)


drm_proc_list ==
    << [name |-> "name",        f |-> "drm_name_info"],
       [name |-> "mem",         f |-> "drm_mem_info"],
       [name |-> "vm",          f |-> "drm_vm_info"],
       [name |-> "clients",     f |-> "drm_clients_info"],
       [name |-> "queues",      f |-> "drm_queues_info"],
       [name |-> "bufs",        f |-> "drm_bufs_info"],
       [name |-> "objects",     f |-> "drm_objects_info"],
       [name |-> "gem_names",   f |-> "drm_gem_name_info"],
       [name |-> "gem_objects", f |-> "drm_gem_object_info"] >>
    \o (IF debug_code # 0
        THEN << [name |-> "vma", f |-> "drm_vma_info"] >> ELSE << >>)

DRM_PROC_ENTRIES == Len(drm_proc_list)

\* Minor 1 is the minor under study: its calls take every input.  Minor 2
\* is a second device under the same root, set up and torn down as the
\* driver core does it: with its own index, and without failures.
Minors == {1, 2}
MinorIds(m) == IF m = 1 THEN {0, 1} ELSE {m - 1}
FailPoints(m) == IF m = 1 THEN 0 .. DRM_PROC_ENTRIES ELSE {0}
Roots(m) == IF m = 1 THEN {NULL, ROOT} ELSE {ROOT}

\* the state the proc calls act on, with the value returned by the
\* function in progress, the log of its remove_proc_entry calls, and the
\* entries it left behind in a directory it removed
ProcState == [minors |-> minors, ents |-> ents, leaked |-> {}, rm |-> << >>,
              ret |-> 0]

RECURSIVE FirstMatch(_, _, _, _)
FirstMatch(es, name, parent, i) ==
    IF i > Len(es) THEN 0
    ELSE IF es[i].name = name /\ es[i].parent = parent THEN i
    ELSE FirstMatch(es, name, parent, i + 1)

Without(es, i) == SubSeq(es, 1, i - 1) \o SubSeq(es, i + 1, Len(es))

\* proc_mkdir(name, parent), the new directory getting the handle h
proc_mkdir(ps, name, parent, h) ==
    [ps EXCEPT !.ents = << [parent |-> parent, name |-> name, h |-> h,
                            read_proc |-> "", data |-> 0] >> \o @]

\* create_proc_entry(name, mode, parent): the new entry heads the list
create_proc_entry(ps, name, parent) ==
    [ps EXCEPT !.ents = << [parent |-> parent, name |-> name, h |-> 0,
                            read_proc |-> "", data |-> 0] >> \o @]

\* remove_proc_entry(name, parent): the first entry of that name in that
\* directory goes; what is still in a removed directory is left behind
remove_proc_entry(ps, name, parent) ==
    LET i == FirstMatch(ps.ents, name, parent, 1) IN
    IF i = 0
    THEN [ps EXCEPT !.rm = Append(@, [name |-> name, parent |-> parent,
                                      hit |-> FALSE, h |-> NULL, data |-> 0])]
    ELSE LET e == ps.ents[i]
             rest == Without(ps.ents, i)
             under == {k \in 1 .. Len(rest) : e.h # 0 /\ rest[k].parent = e.h}
         IN  [ps EXCEPT
                !.ents = SelectSeq(rest, LAMBDA x : ~(e.h # 0 /\ x.parent = e.h)),
                !.leaked = @ \cup {[rest[k] EXCEPT !.parent = NULL] : k \in under},
                !.rm = Append(@, [name |-> name, parent |-> parent,
                                  hit |-> TRUE, h |-> e.h, data |-> e.data])]

----------------------------------------------------------------------------
(* drm_proc_init and drm_proc_cleanup.                                     *)

\* init_entry storing the callback of the entry after this one
init_entry_next_f(ps, m, i) ==
    LET p1 == create_proc_entry(ps, drm_proc_list[i + 1].name,
                                ps.minors[m].dev_root)
        n == IF i + 2 > DRM_PROC_ENTRIES THEN 1 ELSE i + 2
    IN  [p1 EXCEPT !.ents[1].read_proc = drm_proc_list[n].f,
                   !.ents[1].data = m]

\* the body of the registration loop for entry i (0-based) when
\* create_proc_entry succeeds: ent->read_proc and ent->data are set
init_entry(ps, m, i) ==
    LET p1 == create_proc_entry(ps, drm_proc_list[i + 1].name,
                                ps.minors[m].dev_root)
    IN  [p1 EXCEPT !.ents[1].read_proc = drm_proc_list[i + 1].f,
                   !.ents[1].data = m]

\* for (j = 0; j < i; j++) remove_proc_entry(drm_proc_list[i].name, dev_root)
RECURSIVE init_rollback(_, _, _, _)
init_rollback(ps, m, i, j) ==
    IF j >= i THEN ps
    ELSE init_rollback(remove_proc_entry(ps, drm_proc_list[i + 1].name,
                                         ps.minors[m].dev_root),
                       m, i, j + 1)

\* init_fail leaving minor->dev_root as it was
init_fail_keeps_root(ps, m, i, name) ==
    LET p1 == init_rollback(ps, m, i, 0)
        p2 == remove_proc_entry(p1, name, ROOT)
    IN  [p2 EXCEPT !.ret = -1]

\* the branch taken when create_proc_entry returns NULL for entry i
init_fail(ps, m, i, name) ==
    LET p1 == init_rollback(ps, m, i, 0)
        p2 == remove_proc_entry(p1, name, ROOT)
    IN  [p2 EXCEPT !.minors[m].dev_root = NULL, !.ret = -1]

\* for (i = 0; i < DRM_PROC_ENTRIES; i++): fail_at is the 1-based place of
\* the create_proc_entry call that returns NULL, 0 when none does
RECURSIVE init_loop(_, _, _, _, _)
init_loop(ps, m, i, name, fail_at) ==
    IF i >= DRM_PROC_ENTRIES THEN [ps EXCEPT !.ret = 0]
    ELSE IF fail_at = i + 1 THEN init_fail(ps, m, i, name)
    ELSE init_loop(init_entry(ps, m, i), m, i + 1, name, fail_at)

\* drm_proc_init(minor, minor_id, root): h is what proc_mkdir returns
drm_proc_init(ps, m, minor_id, h, fail_at) ==
    LET name == FmtD(minor_id)
        p1 == IF h = NULL THEN ps ELSE proc_mkdir(ps, name, ROOT, h)
        p2 == [p1 EXCEPT !.minors[m].dev_root = h]
    IN  IF p2.minors[m].dev_root = NULL THEN [p2 EXCEPT !.ret = -1]
        ELSE init_loop(p2, m, 0, name, fail_at)

\* for (i = 0; i < DRM_PROC_ENTRIES; i++) remove_proc_entry(name_i, dev_root)
RECURSIVE cleanup_loop(_, _, _)
cleanup_loop(ps, m, i) ==
    IF i >= DRM_PROC_ENTRIES THEN ps
    ELSE cleanup_loop(remove_proc_entry(ps, drm_proc_list[i + 1].name,
                                        ps.minors[m].dev_root),
                      m, i + 1)

\* drm_proc_cleanup(minor, root)
drm_proc_cleanup(ps, m, root) ==
    IF root = NULL \/ ps.minors[m].dev_root = NULL THEN [ps EXCEPT !.ret = 0]
    ELSE LET p1 == cleanup_loop(ps, m, 0)
             p2 == remove_proc_entry(p1, FmtD(p1.minors[m].index), root)
         IN  [p2 EXCEPT !.ret = 0]

\* the handles proc_mkdir can return: NULL, or memory no live directory has
FreeHandles == {h \in DirHandles : \A k \in 1 .. Len(ents) : ents[k].h # h}

\* the entries of minor m still registered, oldest first
RECURSIVE Reverse(_)
Reverse(q) == IF q = << >> THEN << >> ELSE Append(Reverse(Tail(q)), Head(q))

EntriesUnder(h) == Reverse(SelectSeq(ents, LAMBDA e : e.parent = h))

NoOp == [op |-> "none", minor |-> 0, minor_id |-> 0, root |-> NULL,
         h |-> NULL, fail_at |-> 0, ret |-> 0, rm |-> << >>, leaked |-> {},
         prev |-> "fresh", n |-> 0]

ProcInit0 ==
    /\ minors = [m \in Minors |-> [dev_root |-> NULL, index |-> m - 1]]
    /\ ents = << >>
    /\ hist = [m \in Minors |-> "fresh"]
    /\ last = NoOp

\* a call of drm_proc_init on a minor that is not set up: proc_mkdir
\* returns NULL, or a directory and create_proc_entry fails at fail_at
ProcInitCall ==
    \E m \in Minors :
    \E minor_id \in MinorIds(m),
       how \in (IF m = 1 THEN {<<NULL, 0>>} ELSE {})
                 \cup (FreeHandles \X FailPoints(m)) :
        /\ hist[m] # "init_ok"
        /\ last.n < MaxCalls
        /\ \E ps \in {drm_proc_init(ProcState, m, minor_id, how[1], how[2])} :
            /\ minors' = ps.minors
            /\ ents' = ps.ents
            /\ last' = [op |-> "init", minor |-> m, minor_id |-> minor_id,
                        root |-> ROOT, h |-> how[1], fail_at |-> how[2],
                        ret |-> ps.ret, rm |-> ps.rm, leaked |-> ps.leaked,
                        prev |-> hist[m], n |-> last.n + 1]
            /\ hist' = [hist EXCEPT ![m] =
                          IF ps.ret = 0 THEN "init_ok" ELSE "init_fail"]
        /\ UNCHANGED <<dev, call, sess, debug_code, mutex, gen>>

\* a call of drm_proc_cleanup
ProcCleanupCall ==
    \E m \in Minors :
    \E root \in Roots(m) :
        /\ last.n < MaxCalls
        /\ \E ps \in {drm_proc_cleanup(ProcState, m, root)} :
            /\ minors' = ps.minors
            /\ ents' = ps.ents
            /\ last' = [op |-> "cleanup", minor |-> m, minor_id |-> 0,
                        root |-> root, h |-> NULL, fail_at |-> 0,
                        ret |-> ps.ret, rm |-> ps.rm, leaked |-> ps.leaked,
                        prev |-> hist[m], n |-> last.n + 1]
            /\ hist' = IF root = NULL THEN hist
                       ELSE [hist EXCEPT ![m] = "cleanup"]
        /\ UNCHANGED <<dev, call, sess, debug_code, mutex, gen>>

----------------------------------------------------------------------------
(* The device state the generators read.                                   *)

Client(i) == [authenticated |-> i % 2, minor_index |-> 0, pid |-> 100 + i,
              uid |-> 1000, magic |-> i, ioctl_count |-> 10 * i]

GemObj(i) == [name |-> i, size |-> 4096 * i, handlecount |-> 1,
              refcount |-> 1 + i]

\* a mapping: its type runs through the six known codes
Map(i) == [map |-> <<[offset |-> 4096 * i, size |-> 8192, type |-> (i - 1) % 6,
                      flags |-> i % 4, mtrr |-> IF i % 2 = 0 THEN i ELSE -1]>>,
           user_token |-> 65536 * i]

Queue(i) == [flags |-> i % 2, use_count |-> i, finalization |-> 0,
             block_count |-> i % 3, block_read |-> i % 2, block_write |-> 0,
             read_queue |-> 0, write_queue |-> i % 2, flush_queue |-> 0,
             waitlist |-> 2 * i]

\* dma->bufs[i] of an order that has buffers: count buffers of 2^order
\* bytes, in segments of 2^page_order pages; buffers smaller than a page
\* share one
BufEntry(order, count) ==
    IF count = 0
    THEN [buf_size |-> 0, buf_count |-> 0, freelist_count |-> 0,
          seg_count |-> 0, page_order |-> 0]
    ELSE [buf_size |-> 2 ^ order, buf_count |-> count,
          freelist_count |-> count \div 2,
          seg_count |-> IF order >= PAGE_SHIFT THEN count
                        ELSE (count * (2 ^ order) + PAGE_SIZE - 1)
                                 \div PAGE_SIZE,
          page_order |-> IF order > PAGE_SHIFT THEN order - PAGE_SHIFT ELSE 0]

\* a DMA pool with count buffers in each order of the set orders
Dma(orders, count) ==
    [bufs |-> [i \in 0 .. DRM_MAX_ORDER |->
                  BufEntry(i, IF i \in orders THEN count ELSE 0)],
     buflist |-> [k \in 1 .. (count * Cardinality(orders)) |->
                     [list |-> k % 3]]]

NoMemctl == [used_mem |-> 0, used_emer |-> 0, low_mem |-> 0, high_mem |-> 0,
             emer_mem |-> 0]

\* filelist has the client that came last at its head, as list_add leaves it
Device(uniq, nclients, nobjs) ==
    [driver_name |-> "i915", pci_name |-> "0000:00:02.0", unique |-> uniq,
     filelist |-> [i \in 1 .. nclients |-> Client(nclients + 1 - i)],
     object_name_idr |-> [i \in 1 .. nobjs |-> GemObj(i)],
     object_count |-> 2 * nobjs, object_memory |-> 8192 * nobjs,
     pin_count |-> nobjs, pin_memory |-> 4096 * nobjs,
     gtt_memory |-> 4096 * nobjs, gtt_total |-> 65536,
     maplist |-> << >>, queuelist |-> << >>,
     dma |-> <<Dma({}, 0)>>,
     fm |-> [initialized |-> 0, count |-> 0],
     bm |-> [initialized |-> 0, count |-> 0, cur_pages |-> 0],
     memctl |-> NoMemctl]

\* the device with nothing in it
EmptyDevice == Device(<< >>, 0, 0)

\* devices told apart by their mappings, their queues, their DMA pool
WithMaps(n) ==
    [EmptyDevice EXCEPT
        !.maplist = [i \in 1 .. n |->
                        IF i = 2 THEN [map |-> << >>, user_token |-> 0]
                        ELSE Map(i)]]
\* a device whose mappings have the type codes of the sequence codes
WithMapTypes(codes) ==
    [EmptyDevice EXCEPT
        !.maplist = [i \in 1 .. Len(codes) |->
                        [Map(i) EXCEPT !.map[1].type = codes[i]]]]
WithQueues(n) == [EmptyDevice EXCEPT !.queuelist = [i \in 1 .. n |-> Queue(i)]]
WithDma(orders, count) == [EmptyDevice EXCEPT !.dma = <<Dma(orders, count)>>]
WithoutDma == [EmptyDevice EXCEPT !.dma = << >>]
WithMemctl(fence, bufmgr, used_mem, used_emer) ==
    [EmptyDevice EXCEPT
        !.fm = [initialized |-> fence, count |-> 3],
        !.bm = [initialized |-> bufmgr, count |-> 5, cur_pages |-> 7],
        !.memctl = [used_mem |-> used_mem, used_emer |-> used_emer,
                    low_mem |-> 64 * PAGE_SIZE, high_mem |-> 128 * PAGE_SIZE,
                    emer_mem |-> 192 * PAGE_SIZE]]

\* how many clients and named objects the devices read from have: none, a
\* few, and enough for the table to pass DRM_PROC_LIMIT
ClientCounts == {0, 1, 2, MaxClients - 1, MaxClients}
ObjCounts == {0, 1, 2, MaxObjs - 1, MaxObjs}

Devices ==
    {Device(u, c, o) : u \in {<< >>, <<"pci:0000:00:02.0">>},
                       c \in ClientCounts, o \in ObjCounts}
    \cup {WithMaps(n) : n \in {1, 3, MaxMaps}}
    \cup {WithMapTypes(<<-1, 6, 0, 5>>),
          WithMapTypes(<<-2147483647, 2147483647, 3, 7>>)}
    \cup {WithQueues(n) : n \in {1, 2, MaxQueues}}
    \cup {WithoutDma, WithDma({12}, 2), WithDma({10, 12}, 33)}
    \cup {WithMemctl(1, 1, 17 * PAGE_SIZE, 5)}

----------------------------------------------------------------------------
(* Reading a report: ent->read_proc(page, &start, offset, request, &eof,   *)
(* ent->data), the callback being the one drm_proc_init stored.            *)

Generators == {"drm_name_info", "drm_vm_info", "drm_clients_info",
               "drm_queues_info", "drm_bufs_info", "drm_objects_info",
               "drm_gem_name_info", "drm_gem_object_info"}

read_proc(f, d, offset, request) ==
    CASE f = "drm_name_info" -> drm_name_info(d, offset, request)
      [] f = "drm_vm_info" -> drm_vm_info(d, offset, request)
      [] f = "drm_clients_info" -> drm_clients_info(d, offset, request)
      [] f = "drm_queues_info" -> drm_queues_info(d, offset, request)
      [] f = "drm_bufs_info" -> drm_bufs_info(d, offset, request)
      [] f = "drm_objects_info" -> drm_objects_info(d, offset, request)
      [] f = "drm_gem_name_info" -> drm_gem_name_info(d, offset, request)
      [] f = "drm_gem_object_info" -> drm_gem_object_info(d, offset, request)

\* the device as the call leaves it: drm__queues_info alone writes to it
DevAfter(f, d, offset) ==
    IF f = "drm_queues_info"
    THEN [d EXCEPT !.queuelist = queues_after(d, offset)]
    ELSE d

\* the bytes a call hands back: ret bytes from *start = &buf[offset]
Slice(r, offset) ==
    IF r.ret <= 0 THEN "" ELSE SubSeq(r.buf, offset + 1, offset + r.ret)

ReadOffsets == {0, 1, 2, 18, 33, 100, DRM_PROC_LIMIT - 1, DRM_PROC_LIMIT,
                DRM_PROC_LIMIT + 1, PAGE_SIZE}
ReadRequests == {1, 16, 64, PAGE_SIZE}
ChunkSizes == {1, 7, 64, PAGE_SIZE}

NoCall == [f |-> "", offset |-> 0, request |-> 0, ret |-> 0, eof |-> 0,
           buf |-> "", walked |-> 0, locked |-> FALSE]

\* a chunked read: the file, the chunk size, the next offset, the bytes
\* received, the calls made, whether *eof has come back, and whether the
\* device was changed between two of its calls
NoSession == [active |-> FALSE, f |-> "", k |-> 0, offset |-> 0, acc |-> "",
              calls |-> 0, done |-> FALSE, mutated |-> FALSE]

\* the session when its call at sess.offset has returned r
SessAfter(s, r) ==
    [s EXCEPT !.acc = @ \o Slice(r, s.offset),
              !.calls = @ + 1,
              !.done = (r.eof # 0),
              !.offset = IF r.eof # 0 THEN @ ELSE @ + r.ret]

\* the session when the device is changed
Touched(s) ==
    IF s.active /\ ~s.done /\ s.calls > 0 THEN [s EXCEPT !.mutated = TRUE]
    ELSE s

GenIdle == [pc |-> "idle", f |-> "", offset |-> 0, request |-> 0, i |-> 0,
            nid |-> nid_left(0), st |-> ProcStart,
            res |-> Result(ProcStart, FALSE)]

\* the readers: the one whose calls are followed, and one beside it
READER == 1
Readers == {READER, READER + 1}

\* no reader is in a call
AllIdle == [r \in Readers |-> GenIdle]

Called(f, offset, request, r) ==
    [f |-> f, offset |-> offset, request |-> request, ret |-> r.ret,
     eof |-> r.eof, buf |-> r.buf, walked |-> r.walked, locked |-> r.locked]

\* one read_proc call at any offset with any request
Read ==
    \E f \in Generators, offset \in ReadOffsets, request \in ReadRequests :
        /\ call = NoCall /\ sess = NoSession
        /\ call' = Called(f, offset, request, read_proc(f, dev, offset, request))
        /\ dev' = DevAfter(f, dev, offset)
        /\ sess' = NoSession
        /\ UNCHANGED <<procVars, lockVars>>

\* a reader sets out to fetch a report in chunks of k bytes from offset 0
ChunkStartOf(fs, ks) ==
    \E f \in fs, k \in ks :
        /\ call = NoCall /\ sess = NoSession
        /\ sess' = [NoSession EXCEPT !.active = TRUE, !.f = f, !.k = k]
        /\ call' = NoCall
        /\ UNCHANGED <<dev, procVars, lockVars>>

ChunkStart == ChunkStartOf(Generators, ChunkSizes)

\* its next call, with request k at the offset the bytes returned so far
\* have brought it to, until *eof is set
ChunkRead ==
    /\ sess.active /\ ~sess.done
    /\ \E r \in {read_proc(sess.f, dev, sess.offset, sess.k)} :
        /\ call' = Called(sess.f, sess.offset, sess.k, r)
        /\ sess' = SessAfter(sess, r)
    /\ dev' = DevAfter(sess.f, dev, sess.offset)
    /\ UNCHANGED <<procVars, lockVars>>

\* the reader is done with the file
Close ==
    /\ call # NoCall
    /\ ~sess.active \/ sess.done
    /\ call' = NoCall
    /\ sess' = NoSession
    /\ UNCHANGED <<dev, procVars, lockVars>>

Init ==
    /\ dev \in Devices
    /\ call = NoCall
    /\ sess = NoSession
    /\ ProcInit0
    /\ debug_code = 0
    /\ mutex = 0
    /\ gen = AllIdle

Next == Read \/ ChunkStart \/ ChunkRead \/ Close

Spec == Init /\ [][Next]_vars

----------------------------------------------------------------------------
(* Whole reads of the tables of devices that differ in their DMA pool and  *)
(* in their memory figures.                                                *)

MaxBufs == 3

\* the figures drm_query_memctl reports, around the 16-page threshold
MemFigures == {0, 5, 16 * PAGE_SIZE - 1, 16 * PAGE_SIZE, 16 * PAGE_SIZE + 1,
               17 * PAGE_SIZE, 100 * PAGE_SIZE + 7}

\* the pools of one order include the largest drm_addbufs admits, 4096
\* buffers: of 512 kB, 2^31 bytes in all; of 1 MB, 2^32 bytes; and 3072
\* buffers of 2 MB, 2^32 + 2^31 bytes
TableDevices ==
    {WithDma({o}, c) : o \in 0 .. DRM_MAX_ORDER, c \in {1, MaxBufs}}
    \cup {WithDma({19}, 4096), WithDma({20}, 4096), WithDma({21}, 3072)}
    \cup {WithDma(os, MaxBufs) : os \in {{}, {0, 9, 10}, {3, 12, 22},
                                          0 .. 7, 0 .. DRM_MAX_ORDER}}
    \cup {WithoutDma}
    \cup {WithMemctl(f, f, m, e) : f \in {0, 1}, m \in MemFigures,
                                    e \in MemFigures}

\* one read_proc call on a table
TableRead ==
    \E f \in {"drm_bufs_info", "drm_objects_info"},
       offset \in {0, 64}, request \in {64, PAGE_SIZE} :
        /\ call = NoCall
        /\ call' = Called(f, offset, request, read_proc(f, dev, offset, request))
        /\ dev' = DevAfter(f, dev, offset)
        /\ UNCHANGED <<sess, procVars, lockVars>>

TableInit ==
    /\ dev \in TableDevices
    /\ call = NoCall
    /\ sess = NoSession
    /\ ProcInit0
    /\ debug_code = 0
    /\ mutex = 0
    /\ gen = AllIdle

TableNext == TableRead \/ Close

TableSpec == TableInit /\ [][TableNext]_vars

----------------------------------------------------------------------------
(* The registration and removal of the proc entries of two minors under    *)
(* one DRI proc root, in either build.                                     *)

ProcInit ==
    /\ dev = EmptyDevice
    /\ call = NoCall
    /\ sess = NoSession
    /\ ProcInit0
    /\ debug_code \in {0, 1}
    /\ mutex = 0
    /\ gen = AllIdle

ProcNext == ProcInitCall \/ ProcCleanupCall

ProcSpec == ProcInit /\ [][ProcNext]_vars

----------------------------------------------------------------------------------------------------------------------------------------
(* read_proc calls taken statement by statement, beside the threads that   *)
(* change the device under dev->struct_mutex.  mutex is 0 when the lock is *)
(* free and else the reader that holds it.  A wrapper that takes the mutex *)
(* runs its body in one step, for nothing that takes the mutex can come    *)
(* between; so does drm_name_info, which reads nothing that changes.  The  *)
(* generators that take no mutex and read what changes go read by read:    *)
(* the walk of drm_gem_name_info visits one registry entry per step, and   *)
(* drm_gem_object_info makes one of its six prints per step.  The loop of  *)
(* drm__queues_info is taken one statement per step: atomic_inc,           *)
(* DRM_PROC_PRINT_RET, atomic_dec.                                         *)

\* the wrappers, drm_clients_info calling drm__clients_info unlocked
TakesMutex_but_clients(f) ==
    f \in {"drm_vm_info", "drm_queues_info", "drm_bufs_info",
           "drm_objects_info"}

\* the wrappers of lines 272, 347, 421, 520 and 578
TakesMutex(f) ==
    f \in {"drm_vm_info", "drm_queues_info", "drm_bufs_info",
           "drm_objects_info", "drm_clients_info"}

\* a wrapper that leaves by the return of its "offset > DRM_PROC_LIMIT" test
\* and of its DRM_PROC_PRINT, as if the generator were written in its body
mutex_unlock_last_line(f, res, m) ==
    IF /\ TakesMutex(f)
       /\ ~(res.eof = 1 /\ (res.ret = 0 \/ Len(res.buf) > DRM_PROC_LIMIT))
    THEN 0 ELSE m

\* mutex_unlock(&dev->struct_mutex) by the wrapper of f: what is in mutex
\* once f has returned res, m being what it was
mutex_unlock(f, res, m) == IF TakesMutex(f) THEN 0 ELSE m

LockOffsets == {0, 33, DRM_PROC_LIMIT + 1}
LockRequests == {16, PAGE_SIZE}

\* the callback is entered
GenCallOf(r, fs, offsets, requests) ==
    \E f \in fs, offset \in offsets, request \in requests :
        /\ gen[r].pc = "idle" /\ call = NoCall
        /\ gen' = [gen EXCEPT ![r] =
                     [GenIdle EXCEPT !.pc = IF TakesMutex(f) THEN "lock"
                                           ELSE "body",
                                     !.f = f, !.offset = offset,
                                     !.request = request]]
        /\ UNCHANGED <<dev, call, sess, procVars, mutex>>

\* mutex_lock(&dev->struct_mutex)
GenLock(r) ==
    /\ gen[r].pc = "lock" /\ mutex = 0
    /\ mutex' = r
    /\ gen' = [gen EXCEPT ![r].pc = "body"]
    /\ UNCHANGED <<dev, call, sess, procVars>>

\* the body of a wrapper's generator, which runs with the mutex held, and of
\* drm_name_info, which reads nothing that changes
GenBody(r) ==
    /\ gen[r].pc = "body"
    /\ gen[r].f \notin {"drm_gem_name_info", "drm_queues_info",
                        "drm_gem_object_info"}
    /\ gen' = [gen EXCEPT ![r].pc = "return",
                          ![r].res = read_proc(gen[r].f, dev, gen[r].offset,
                                               gen[r].request)]
    /\ UNCHANGED <<dev, call, sess, procVars, mutex>>

\* drm_gem_name_info up to the call of idr_for_each; its nid starts as the
\* stack has it
GenGemStart(r) ==
    /\ gen[r].pc = "body" /\ gen[r].f = "drm_gem_name_info"
    /\ \E eof \in {0, 1} :
          gen' = IF gen[r].offset > DRM_PROC_LIMIT
                 THEN [gen EXCEPT ![r].pc = "return",
                                  ![r].res = Result(Ceiling(ProcStart),
                                                    FALSE)]
                 ELSE [gen EXCEPT ![r].pc = "walk", ![r].i = 1,
                                  ![r].nid = gem_name_start(nid_left(eof))]
    /\ UNCHANGED <<dev, call, sess, procVars, mutex>>

\* idr_for_each hands the next entry of the registry, as it is now, to
\* drm_gem_one_name_info
GenGemWalk(r) ==
    /\ gen[r].pc = "walk" /\ gen[r].i <= Len(dev.object_name_idr)
    /\ gen' = [gen EXCEPT
                 ![r].i = @ + 1,
                 ![r].nid = [drm_gem_one_name_info(
                                 dev.object_name_idr[gen[r].i], @)
                                 EXCEPT !.walked = @ + 1]]
    /\ UNCHANGED <<dev, call, sess, procVars, mutex>>

\* idr_for_each is through: the final test of drm_gem_name_info
GenGemFinish(r) ==
    /\ gen[r].pc = "walk" /\ gen[r].i > Len(dev.object_name_idr)
    /\ gen' = [gen EXCEPT ![r].pc = "return",
                          ![r].res = gem_name_finish(gen[r].nid, gen[r].offset,
                                                     gen[r].request)]
    /\ UNCHANGED <<dev, call, sess, procVars, mutex>>

\* drm_gem_object_info down to its first print: lines 651 to 656
GenObjStart(r) ==
    /\ gen[r].pc = "body" /\ gen[r].f = "drm_gem_object_info"
    /\ gen' = IF gen[r].offset > DRM_PROC_LIMIT
              THEN [gen EXCEPT ![r].pc = "return",
                               ![r].res = Result(Ceiling(ProcStart), FALSE)]
              ELSE [gen EXCEPT ![r].pc = "obj", ![r].i = 1,
                               ![r].st = ProcStart]
    /\ UNCHANGED <<dev, call, sess, procVars, mutex>>

\* one DRM_PROC_PRINT of lines 657 to 662: it reads its field of the device
\* as it is now
GenObjPrint(r) ==
    /\ gen[r].pc = "obj" /\ gen[r].i <= 6
    /\ \E s \in {DRM_PROC_PRINT(gen[r].st, gen[r].offset,
                                gem_object_line(dev, gen[r].i))} :
          gen' = IF s.returned
                 THEN [gen EXCEPT ![r].pc = "return", ![r].st = s,
                                  ![r].res = Result(s, FALSE)]
                 ELSE [gen EXCEPT ![r].i = @ + 1, ![r].st = s]
    /\ UNCHANGED <<dev, call, sess, procVars, mutex>>

\* the six prints are through: the final test of drm_gem_object_info
GenObjFinish(r) ==
    /\ gen[r].pc = "obj" /\ gen[r].i > 6
    /\ gen' = [gen EXCEPT ![r].pc = "return",
                          ![r].res = Result(gem_object_finish(gen[r].st,
                                                              gen[r].offset,
                                                              gen[r].request),
                                            FALSE)]
    /\ UNCHANGED <<dev, call, sess, procVars, mutex>>

\* drm__queues_info down to its loop: lines 305 to 316
GenQueuesStart(r) ==
    /\ gen[r].pc = "body" /\ gen[r].f = "drm_queues_info"
    /\ gen' = IF gen[r].offset > DRM_PROC_LIMIT
              THEN [gen EXCEPT ![r].pc = "return",
                               ![r].res = Result(Ceiling(ProcStart), TRUE)]
              ELSE [gen EXCEPT ![r].pc = "inc", ![r].i = 1,
                               ![r].st = DRM_PROC_PRINT(ProcStart,
                                                        gen[r].offset,
                                                        queues_header)]
    /\ UNCHANGED <<dev, call, sess, procVars, mutex>>

\* q = dev->queuelist[i]; atomic_inc(&q->use_count);
GenQueueInc(r) ==
    /\ gen[r].pc = "inc" /\ gen[r].i <= Len(dev.queuelist)
    /\ dev' = [dev EXCEPT !.queuelist = atomic_inc(@, gen[r].i)]
    /\ gen' = [gen EXCEPT ![r].pc = "print", ![r].st.walked = @ + 1]
    /\ UNCHANGED <<call, sess, procVars, mutex>>

\* DRM_PROC_PRINT_RET(atomic_dec(&q->use_count), ...): the row, and on the
\* way out past DRM_PROC_LIMIT the decrement and the return
GenQueuePrint(r) ==
    /\ gen[r].pc = "print"
    /\ \E w \in {queues_print([st |-> gen[r].st, qs |-> dev.queuelist],
                              gen[r].offset, gen[r].i)} :
          /\ dev' = [dev EXCEPT !.queuelist = w.qs]
          /\ gen' = IF w.st.returned
                    THEN [gen EXCEPT ![r].pc = "return", ![r].st = w.st,
                                     ![r].res = Result(w.st, TRUE)]
                    ELSE [gen EXCEPT ![r].pc = "dec", ![r].st = w.st]
    /\ UNCHANGED <<call, sess, procVars, mutex>>

\* atomic_dec(&q->use_count); i++
GenQueueDec(r) ==
    /\ gen[r].pc = "dec"
    /\ dev' = [dev EXCEPT !.queuelist = atomic_dec(@, gen[r].i)]
    /\ gen' = [gen EXCEPT ![r].pc = "inc", ![r].i = @ + 1]
    /\ UNCHANGED <<call, sess, procVars, mutex>>

\* the loop is through: the final test of drm__queues_info
GenQueuesFinish(r) ==
    /\ gen[r].pc = "inc" /\ gen[r].i > Len(dev.queuelist)
    /\ gen' = [gen EXCEPT ![r].pc = "return",
                          ![r].res = Result(queues_finish(gen[r].st,
                                                          gen[r].offset,
                                                          gen[r].request),
                                            TRUE)]
    /\ UNCHANGED <<dev, call, sess, procVars, mutex>>

\* mutex_unlock in a wrapper, and the return to the caller
GenReturn(r) ==
    /\ gen[r].pc = "return"
    /\ mutex' = mutex_unlock(gen[r].f, gen[r].res, mutex)
    /\ call' = Called(gen[r].f, gen[r].offset, gen[r].request, gen[r].res)
    /\ gen' = [gen EXCEPT ![r] = GenIdle]
    /\ UNCHANGED <<dev, sess, procVars>>

\* a client opens the device: under struct_mutex, list_add puts it at the
\* head of dev->filelist
AddClientUpTo(n) ==
    /\ mutex = 0 /\ Len(dev.filelist) < n
    /\ dev' = [dev EXCEPT !.filelist = <<Client(Len(@) + 1)>> \o @]
    /\ sess' = Touched(sess)
    /\ UNCHANGED <<call, procVars, lockVars>>

\* the client that came last closes the device
DelClient ==
    /\ mutex = 0 /\ dev.filelist # << >>
    /\ dev' = [dev EXCEPT !.filelist = Tail(@)]
    /\ sess' = Touched(sess)
    /\ UNCHANGED <<call, procVars, lockVars>>

\* an object is given a name: under struct_mutex, it joins the registry
AddObjUpTo(n) ==
    /\ mutex = 0 /\ Len(dev.object_name_idr) < n
    /\ dev' = [dev EXCEPT !.object_name_idr = Append(@, GemObj(Len(@) + 1)),
                          !.object_count = @ + 2,
                          !.object_memory = @ + 8192]
    /\ sess' = Touched(sess)
    /\ UNCHANGED <<call, procVars, lockVars>>

AddObj == AddObjUpTo(MaxObjs)

\* the object named last is freed
DelObj ==
    /\ mutex = 0 /\ dev.object_name_idr # << >>
    /\ dev' = [dev EXCEPT !.object_name_idr = SubSeq(@, 1, Len(@) - 1),
                          !.object_count = @ - 2,
                          !.object_memory = @ - 8192]
    /\ sess' = Touched(sess)
    /\ UNCHANGED <<call, procVars, lockVars>>

\* a device with a client and a named object, with or without context
\* queues and a DMA pool; and a device whose named objects give rows of
\* two lengths, "%9zd" being a least width: every fourth object is of
\* 2147483647 bytes, ten digits, and its row has a byte more than the
\* others
LockDevices ==
    {Device(<< >>, 1, 1),
     [Device(<< >>, 1, 1) EXCEPT
         !.queuelist = WithQueues(MaxQueues - 1).queuelist],
     [Device(<< >>, 1, 1) EXCEPT !.queuelist = WithQueues(MaxQueues).queuelist,
                                 !.dma = << >>],
     [Device(<< >>, 1, MaxObjs - 2) EXCEPT
         !.object_name_idr =
             [i \in 1 .. (MaxObjs - 2) |->
                 IF i % 4 = 0 THEN [GemObj(i) EXCEPT !.size = 2147483647]
                 ELSE GemObj(i)]]}

LockInit ==
    /\ dev \in LockDevices
    /\ call = NoCall
    /\ sess = NoSession
    /\ ProcInit0
    /\ debug_code = 0
    /\ mutex = 0
    /\ gen = AllIdle

GenStep(r) ==
    \/ GenLock(r) \/ GenBody(r) \/ GenGemStart(r) \/ GenGemWalk(r)
    \/ GenGemFinish(r) \/ GenObjStart(r) \/ GenObjPrint(r) \/ GenObjFinish(r)
    \/ GenQueuesStart(r) \/ GenQueueInc(r)
    \/ GenQueuePrint(r) \/ GenQueueDec(r) \/ GenQueuesFinish(r)
    \/ GenReturn(r)

LockNext ==
    \/ GenCallOf(READER, Generators, LockOffsets, LockRequests)
    \/ GenStep(READER) \/ Close
    \/ AddObj \/ DelObj

LockSpec == LockInit /\ [][LockNext]_vars

----------------------------------------------------------------------------
(* Two readers on a device nobody changes, each calling at the start of a *)
(* report, inside it or past the ceiling, for a few bytes or a whole page. *)

MutexDevices ==
    {Device(<< >>, MaxClients, MaxObjs - 1), WithQueues(MaxQueues - 1),
     WithQueues(MaxQueues), WithoutDma, WithMaps(3)}

MutexInit ==
    /\ dev \in MutexDevices
    /\ call = NoCall
    /\ sess = NoSession
    /\ ProcInit0
    /\ debug_code = 0
    /\ mutex = 0
    /\ gen = AllIdle

MutexNext ==
    \E r \in Readers :
        \/ GenCallOf(r, Generators, LockOffsets, LockRequests)
        \/ GenStep(r) \/ Close

MutexSpec == MutexInit /\ [][MutexNext]_vars

----------------------------------------------------------------------------
(* One reader fetching the clients table in chunks, each call taken        *)
(* statement by statement, while clients open and close the device.        *)

TornClients == 5

TornChunks == {64, PAGE_SIZE \div 4}

TornDevices == {Device(<< >>, n, 1) : n \in 0 .. TornClients}

\* the reader's next call: offset 0, k, 2k, ... with request k
TornCall ==
    /\ sess.active /\ ~sess.done /\ gen[READER].pc = "idle"
    /\ gen' = [gen EXCEPT ![READER] =
                 [GenIdle EXCEPT !.pc = IF TakesMutex(sess.f) THEN "lock"
                                       ELSE "body",
                                 !.f = sess.f, !.offset = sess.offset,
                                 !.request = sess.k]]
    /\ UNCHANGED <<dev, call, sess, procVars, mutex>>

\* mutex_unlock in the wrapper, and the chunk handed to the reader
TornReturn ==
    /\ sess.active /\ gen[READER].pc = "return"
    /\ mutex' = mutex_unlock(gen[READER].f, gen[READER].res, mutex)
    /\ call' = Called(gen[READER].f, gen[READER].offset, gen[READER].request,
                      gen[READER].res)
    /\ sess' = SessAfter(sess, gen[READER].res)
    /\ gen' = [gen EXCEPT ![READER] = GenIdle]
    /\ UNCHANGED <<dev, procVars>>

TornInit ==
    /\ dev \in TornDevices
    /\ call = NoCall
    /\ sess = NoSession
    /\ ProcInit0
    /\ debug_code = 0
    /\ mutex = 0
    /\ gen = AllIdle

TornNext ==
    \/ ChunkStartOf({"drm_clients_info"}, TornChunks) \/ TornCall \/ GenLock(READER) \/ GenBody(READER)
    \/ TornReturn \/ Close
    \/ AddClientUpTo(TornClients) \/ DelClient

TornSpec == TornInit /\ [][TornNext]_vars

----------------------------------------------------------------------------
(* A reader that keeps calling until *eof, its calls taken whole, while    *)
(* clients come and go and objects are named and freed.                    *)

ReaderStart ==
    ChunkStartOf({"drm_clients_info", "drm_gem_name_info"}, {64, PAGE_SIZE})

ReaderNext ==
    \/ ReaderStart \/ ChunkRead \/ Close
    \/ AddClientUpTo(TornClients) \/ DelClient \/ AddObj \/ DelObj

\* the reader keeps calling: weak fairness of ChunkRead, which is enabled
\* exactly when a read is open and has not been given *eof
ReaderKeepsCalling ==
    \/ []<>~(sess.active /\ ~sess.done)
    \/ []<><<ChunkRead>>_vars

ReaderSpec == TornInit /\ [][ReaderNext]_vars /\ ReaderKeepsCalling

----------------
(* The paginated read protocol: C1 to C4, under Spec.                      *)

\* the body as a call at offset 0 regenerates it
Body(f, d) == read_proc(f, d, 0, PAGE_SIZE).buf

\* one call at offset 0 whose request covers the whole report
FullRead(f, d) == Slice(read_proc(f, d, 0, PAGE_SIZE), 0)

MadeCall == call.f # ""

\* C1, as claimed: for every generator and every chunk size, the slices of
\* a chunked read at offsets 0, k, 2k, ... up to end-of-report, put
\* together, are the bytes of one full read of the unchanged device.
C1_ChunksEqualFullRead ==
    sess.done => sess.acc = FullRead(sess.f, dev)

\* the bytes a chunked read of a body of len bytes has been given when its
\* offset, going up by k, is first above DRM_PROC_LIMIT, or all of them
ChunkedReach(len, k) ==
    LET ceiling == ((DRM_PROC_LIMIT \div k) + 1) * k
    IN  IF len <= ceiling THEN len ELSE ceiling

\* C1, amended: the same, for a report whose regenerated body is no longer
\* than DRM_PROC_LIMIT.  Of a longer body the chunked read is given the
\* first bytes of what one full read returns: all of them by a generator
\* that prints with DRM_PROC_PRINT, whose first call leaves with *eof set
\* as the full read does, and by drm_gem_name_info those up to the first
\* offset above DRM_PROC_LIMIT, where the call returns nothing and sets
\* *eof.
C1_ChunksEqualFullReadWithinLimit ==
    sess.done =>
        LET full == FullRead(sess.f, dev) IN
        IF Len(Body(sess.f, dev)) <= DRM_PROC_LIMIT
        THEN sess.acc = full
        ELSE /\ sess.acc = SubSeq(full, 1, Len(sess.acc))
             /\ sess.f # "drm_gem_name_info" => sess.acc = full
             /\ sess.f = "drm_gem_name_info"
                    => Len(sess.acc) = ChunkedReach(Len(full), sess.k)

\* a chunked read of several calls has ended, on a body within the limit
C1_Witness ==
    /\ sess.done
    /\ Len(Body(sess.f, dev)) <= DRM_PROC_LIMIT
    /\ sess.offset >= 2 * sess.k
    /\ sess.acc = Body(sess.f, dev)

\* the final test of a generator as C2 states it
ProtocolSlice(c) ==
    IF Len(c.buf) > c.offset + c.request
    THEN c.ret = c.request /\ c.eof = 0
    ELSE c.ret = Len(c.buf) - c.offset /\ c.eof = 1

\* C2, as claimed: a call with offset <= DRM_PROC_LIMIT returns request
\* bytes and no end-of-report when the regenerated body is longer than
\* offset + request, and else totalLength - offset bytes and end-of-report.
C2_SliceArithmetic ==
    (MadeCall /\ call.offset <= DRM_PROC_LIMIT) => ProtocolSlice(call)

\* C2, amended: that holds of the gem_names listing, and of every other
\* generator when its body is no longer than DRM_PROC_LIMIT; a DRM_PROC_PRINT
\* generator whose body passes DRM_PROC_LIMIT returns totalLength - offset
\* bytes and end-of-report whatever the request; and the bufs report of a
\* device without a DMA pool returns 0 bytes and end-of-report, whatever
\* the offset.
C2_SliceArithmeticWithinLimit ==
    (MadeCall /\ call.offset <= DRM_PROC_LIMIT) =>
        IF call.f = "drm_bufs_info" /\ dev.dma = << >>
        THEN call.ret = 0 /\ call.eof = 1
        ELSE IF call.f = "drm_gem_name_info"
                \/ Len(call.buf) <= DRM_PROC_LIMIT
             THEN ProtocolSlice(call)
             ELSE call.ret = Len(call.buf) - call.offset /\ call.eof = 1

\* a call inside the body that returns request bytes and more remains
C2_Witness ==
    /\ MadeCall
    /\ call.offset > 0 /\ call.offset <= DRM_PROC_LIMIT
    /\ Len(call.buf) > call.offset + call.request
    /\ call.ret = call.request /\ call.eof = 0

\* C3, as claimed: a call whose offset is at or past the total length of
\* the report returns a byte count of 0 and end-of-report.
C3_PastEndReturnsZero ==
    (MadeCall /\ call.offset >= Len(Body(call.f, dev)))
        => (call.ret = 0 /\ call.eof = 1)

\* C4: a call whose offset exceeds DRM_PROC_LIMIT, the one ceiling of all
\* reports, returns 0 bytes and end-of-report with nothing written to the
\* buffer and no element of a device collection visited.
C4_CeilingShortCircuit ==
    (MadeCall /\ call.offset > DRM_PROC_LIMIT)
        => /\ call.ret = 0 /\ call.eof = 1
           /\ call.buf = "" /\ call.walked = 0

\* gem_names read past the ceiling while the registry holds objects
C4_Witness ==
    /\ call.f = "drm_gem_name_info"
    /\ call.offset > DRM_PROC_LIMIT
    /\ dev.object_name_idr # << >>
    /\ call.ret = 0 /\ call.eof = 1

----------------------------------------------------------------------------
(* Registration and removal: C5 to C9, under ProcSpec.                     *)

\* the entries of minor m that are still registered or were left behind
Registered(m) ==
    {ents[k] : k \in {j \in 1 .. Len(ents) : ents[j].data = m}}
    \cup {e \in last.leaked : e.data = m}

DirExists(h) == \E k \in 1 .. Len(ents) : ents[k].h = h

\* the names whose entry in directory h a call has removed
Unregistered(h) ==
    {last.rm[k].name : k \in {j \in 1 .. Len(last.rm) :
                                last.rm[j].hit /\ last.rm[j].parent = h}}

InitFailedAtEntry == last.op = "init" /\ last.h # NULL /\ last.fail_at >= 1

\* C5, as claimed: when the registration of descriptor N fails, exactly the
\* N-1 descriptors registered before it are unregistered, the namespace is
\* removed, failure is returned, and nothing of the instance is registered.
C5_RollbackUnregistersAll ==
    InitFailedAtEntry =>
        /\ last.ret = -1
        /\ Unregistered(last.h) =
               {drm_proc_list[i].name : i \in 1 .. (last.fail_at - 1)}
        /\ ~DirExists(last.h)
        /\ Registered(last.minor) = {}
        /\ minors[last.minor].dev_root = NULL

CleanupAfterFailedInit == last.op = "cleanup" /\ last.prev = "init_fail"

\* C6: drm_proc_cleanup after a failed drm_proc_init on the same minor makes
\* no removal at all and returns 0.
C6_CleanupAfterFailedInit ==
    CleanupAfterFailedInit => (last.ret = 0 /\ last.rm = << >>)

\* cleanup was called with the root after an init that failed
C6_Witness == CleanupAfterFailedInit /\ last.root = ROOT /\ last.ret = 0

\* C7, as claimed: a cleanup that follows a cleanup, or is called when
\* nothing was registered, returns 0 and removes no entry.
C7_CleanupIdempotent ==
    (last.op = "cleanup" /\ last.prev \in {"cleanup", "fresh", "init_fail"})
        => /\ last.ret = 0
           /\ \A k \in 1 .. Len(last.rm) : ~last.rm[k].hit

\* the fixed list, as C8 gives it
FixedList ==
    << <<"name", "drm_name_info">>, <<"mem", "drm_mem_info">>,
       <<"vm", "drm_vm_info">>, <<"clients", "drm_clients_info">>,
       <<"queues", "drm_queues_info">>, <<"bufs", "drm_bufs_info">>,
       <<"objects", "drm_objects_info">>,
       <<"gem_names", "drm_gem_name_info">>,
       <<"gem_objects", "drm_gem_object_info">> >>
    \o (IF debug_code # 0 THEN << <<"vma", "drm_vma_info">> >> ELSE << >>)

InitSucceeded == last.op = "init" /\ last.ret = 0

\* C8: when drm_proc_init returns 0 the namespace named after minor_id is
\* there and the entries in it are the fixed list, once each, in order,
\* each with its own callback and this minor as data.
C8_InitRegistersFixedList ==
    InitSucceeded =>
        LET h == minors[last.minor].dev_root IN
        /\ h # NULL /\ h = last.h
        /\ \E k \in 1 .. Len(ents) :
              /\ ents[k].h = h /\ ents[k].parent = ROOT
              /\ ents[k].name = FmtD(last.minor_id)
        /\ EntriesUnder(h) =
              [i \in 1 .. Len(FixedList) |->
                  [parent |-> h, name |-> FixedList[i][1], h |-> 0,
                   read_proc |-> FixedList[i][2], data |-> last.minor]]

\* an init has succeeded in the debug build
C8_Witness ==
    /\ InitSucceeded /\ debug_code # 0
    /\ Len(EntriesUnder(minors[last.minor].dev_root)) = 10

\* C9, as claimed: after a successful init, cleanup on the same minor leaves
\* none of its entries registered and removes the namespace init created.
C9_CleanupUndoesInit ==
    (last.op = "cleanup" /\ last.root = ROOT /\ last.prev = "init_ok") =>
        LET h == minors[last.minor].dev_root IN
        /\ Registered(last.minor) = {}
        /\ ~DirExists(h)
        /\ last.rm[Len(last.rm)].hit /\ last.rm[Len(last.rm)].h = h

----------------------------------------------------------------------------
(* The named-object listing past the limit: C11, under Spec.               *)

\* the header and the lines of the first m entries of the registry
RECURSIVE GemPrefix(_, _)
GemPrefix(idr, m) ==
    IF m = 0 THEN gem_names_header
    ELSE GemPrefix(idr, m - 1) \o gem_one_name_line(idr[m])

\* the number of entries appended: all of them, or those up to and
\* including the first that takes the length past DRM_PROC_LIMIT
GemAppended(idr) ==
    LET over == {m \in 0 .. Len(idr) : Len(GemPrefix(idr, m)) > DRM_PROC_LIMIT}
    IN  IF over = {} THEN Len(idr)
        ELSE CHOOSE m \in over : \A k \in over : m <= k

GemNamesCalled == call.f = "drm_gem_name_info" /\ call.offset <= DRM_PROC_LIMIT

\* C11: once the listing is longer than DRM_PROC_LIMIT no later entry of the
\* registry is appended; the walk still visits every entry and the call
\* returns as any other; what is written is the header and whole lines.
C11_GemNamesStopsAppending ==
    GemNamesCalled =>
        /\ call.buf = GemPrefix(dev.object_name_idr,
                                GemAppended(dev.object_name_idr))
        /\ call.walked = Len(dev.object_name_idr)
        /\ ProtocolSlice(call)

\* a listing that stopped before the end of the registry
C11_Witness ==
    /\ GemNamesCalled
    /\ GemAppended(dev.object_name_idr) < Len(dev.object_name_idr)
    /\ call.walked = Len(dev.object_name_idr)
    /\ Len(call.buf) > DRM_PROC_LIMIT

----------------------------------------------------------------------------
(* The reports of an empty device: C12, under Spec.                        *)

TableReports == {"drm_vm_info", "drm_clients_info", "drm_queues_info",
                 "drm_bufs_info", "drm_gem_name_info"}

TableHeader(f) ==
    CASE f = "drm_vm_info" -> vm_header
      [] f = "drm_clients_info" -> clients_header
      [] f = "drm_queues_info" -> queues_header
      [] f = "drm_bufs_info" -> bufs_header
      [] f = "drm_gem_name_info" -> gem_names_header

\* no client, no mapping, no queue, no named object, and no DMA pool or one
\* without a buffer
NothingToList(d) ==
    /\ d.filelist = << >> /\ d.maplist = << >> /\ d.queuelist = << >>
    /\ d.object_name_idr = << >>
    /\ d.dma # << >> =>
          /\ d.dma[1].buflist = << >>
          /\ \A i \in 0 .. DRM_MAX_ORDER : d.dma[1].bufs[i].buf_count = 0

\* a table report of such a device read whole from offset 0
EmptyTableRead ==
    /\ call.f \in TableReports
    /\ call.offset = 0 /\ call.request = PAGE_SIZE
    /\ NothingToList(dev)

\* C12, as claimed: every table report of a device with nothing to list,
\* the device without a DMA pool too, read whole from offset 0, returns
\* its header only, with no row and end-of-report.
C12_EmptyTablesHeaderOnly ==
    EmptyTableRead =>
        /\ call.eof = 1 /\ call.walked = 0
        /\ call.ret = Len(TableHeader(call.f))
        /\ call.buf = TableHeader(call.f)

\* C12, amended: that holds of vm, clients, queues and gem_names; bufs
\* returns its header and two empty lines when the DMA pool has no buffer,
\* and nothing at all, with end-of-report, when there is no DMA pool.
C12_EmptyTables ==
    EmptyTableRead =>
        LET body == IF call.f # "drm_bufs_info" THEN TableHeader(call.f)
                    ELSE IF dev.dma = << >> THEN ""
                    ELSE bufs_header \o "\n\n"
        IN  /\ call.eof = 1 /\ call.walked = 0
            /\ call.ret = Len(body)
            /\ call.buf = body

\* the bufs report of an empty DMA pool has been read
C12_Witness ==
    /\ EmptyTableRead
    /\ call.f = "drm_bufs_info" /\ dev.dma # << >>
    /\ call.ret = Len(bufs_header) + 2 /\ call.eof = 1

----------------------------------------------------------------------------
(* The buffer-pool table: C13, under TableSpec.                            *)

Char(str, i) == SubSeq(str, i, i)

\* the place of the first character of the set seps at or after place i of
\* str, or Len(str) + 1
NextSep(str, seps, i) ==
    LET hits == {k \in i .. Len(str) : Char(str, k) \in seps}
    IN  IF hits = {} THEN Len(str) + 1
        ELSE CHOOSE k \in hits : \A j \in hits : k <= j

\* str from place i on, cut at every character of the set seps
RECURSIVE SplitFrom(_, _, _)
SplitFrom(str, seps, i) ==
    LET k == NextSep(str, seps, i)
    IN  <<SubSeq(str, i, k - 1)>>
        \o (IF k > Len(str) THEN << >> ELSE SplitFrom(str, seps, k + 1))

\* the lines of a text, and the fields of a line
TextLines(str) == SplitFrom(str, {"\n"}, 1)
LineFields(line) ==
    SelectSeq(SplitFrom(line, {" ", "\t"}, 1), LAMBDA t : t # "")

\* the number a field of decimal digits stands for
RECURSIVE ParseInt(_)
ParseInt(tok) ==
    IF tok = "" THEN 0
    ELSE 10 * ParseInt(SubSeq(tok, 1, Len(tok) - 1))
         + (CHOOSE d \in 0 .. 9 : Digit(d) = Char(tok, Len(tok)))

\* the rows of a bufs report: the lines after the header and its empty
\* line, up to the empty line that ends the table
BufsRows(buf) ==
    LET lines == TextLines(buf)
        ends == {k \in 3 .. Len(lines) : lines[k] = ""}
        end == IF ends = {} THEN Len(lines) + 1
               ELSE CHOOSE k \in ends : \A j \in ends : k <= j
    IN  [k \in 1 .. (end - 3) |-> LineFields(lines[k + 2])]

\* the orders of the pool that have buffers
OrdersInUse(dma) == {i \in 0 .. DRM_MAX_ORDER : dma.bufs[i].buf_count # 0}

\* a bufs report read whole, of a pool whose rows, of 47 bytes at most
\* here, all fit under DRM_PROC_LIMIT (at a page size of 4096 all 23 rows
\* always do)
BufsRead ==
    /\ call.f = "drm_bufs_info" /\ call.offset = 0
    /\ call.request = PAGE_SIZE
    /\ dev.dma # << >>
    /\ Len(bufs_header) + 47 * Cardinality(OrdersInUse(dev.dma[1]))
           <= DRM_PROC_LIMIT

\* the kilobytes of an order: seg_count * 2^page_order * PAGE_SIZE / 1024
\* in the integers.  PAGE_SIZE is a power of two; from 1024 up, as on
\* every build of the module, the division leaves no remainder, and at a
\* smaller page the figure is the whole part of the quotient.
KbOfOrder(e) ==
    IF PAGE_SHIFT >= 10
    THEN e.seg_count * (2 ^ e.page_order) * (2 ^ (PAGE_SHIFT - 10))
    ELSE (e.seg_count * (2 ^ e.page_order)) \div (2 ^ (10 - PAGE_SHIFT))

\* the orders of the report have one row each and the orders without
\* buffers none, and the kB field of the row of order i is kb[i]
BufsRowsShow(kb) ==
    LET dma == dev.dma[1]
        rows == BufsRows(call.buf)
    IN  \A i \in 0 .. DRM_MAX_ORDER :
            LET mine == {k \in 1 .. Len(rows) : ParseInt(rows[k][1]) = i}
            IN  IF dma.bufs[i].buf_count = 0 THEN mine = {}
                ELSE /\ Cardinality(mine) = 1
                     /\ \A k \in mine :
                           Len(rows[k]) = 7 /\ ParseInt(rows[k][7]) = kb[i]

C13_ExactWithinLong ==
    BufsRead =>
        BufsRowsShow(
            [i \in 0 .. DRM_MAX_ORDER |->
                LET e == dev.dma[1].bufs[i]
                    wrap == 2 ^ (BITS_PER_LONG - 10)
                IN  IF KbOfOrder(e) < wrap THEN KbOfOrder(e)
                    ELSE KbOfOrder(e) % wrap])

\* a pool with buffers in orders 3, 12 and 22 has been reported: three
\* rows, the last of segments of 2^13 pages
C13_Witness ==
    /\ BufsRead
    /\ OrdersInUse(dev.dma[1]) = {3, 12, 22}
    /\ dev.dma[1].bufs[22].page_order = 22 - PAGE_SHIFT
    /\ Len(BufsRows(call.buf)) = 3
    /\ call.eof = 1

----------------------------------------------------------------------------
(* The memory figures of the objects report: C14, under TableSpec.         *)

\* the fields of the lines of a text that begin with the words of start
LinesStarting(buf, start) ==
    LET lines == TextLines(buf)
        fields == [k \in 1 .. Len(lines) |-> LineFields(lines[k])]
    IN  SelectSeq(fields,
                  LAMBDA r : /\ Len(r) >= Len(start)
                             /\ SubSeq(r, 1, Len(start)) = start)

\* the figure is given in pages when above 16 pages, else in bytes
RendersFigure(fields, value) ==
    IF value > 16 * PAGE_SIZE
    THEN /\ ParseInt(fields[5]) = value \div PAGE_SIZE
         /\ fields[6] = "pages."
    ELSE /\ ParseInt(fields[5]) = value
         /\ fields[6] = "bytes."

ObjectsRead ==
    /\ call.f = "drm_objects_info" /\ call.offset = 0
    /\ call.request = PAGE_SIZE

\* C14: the objects report gives the used object memory, and the used
\* emergency memory, in pages exactly when the figure is above 16 pages of
\* bytes, and in bytes otherwise.
C14_PagesAboveSixteen ==
    ObjectsRead =>
        LET used == LinesStarting(call.buf, <<"Used", "object", "memory", "is">>)
            emer == LinesStarting(call.buf,
                                  <<"Used", "emergency", "memory", "is">>)
        IN  /\ Len(used) = 1 /\ Len(used[1]) = 6
            /\ RendersFigure(used[1], dev.memctl.used_mem)
            /\ Len(emer) = 1 /\ Len(emer[1]) = 6
            /\ RendersFigure(emer[1], dev.memctl.used_emer)

\* 17 pages of used memory were given as pages, and 16 pages of used
\* emergency memory as bytes
C14_Witness ==
    /\ ObjectsRead
    /\ dev.memctl.used_mem = 17 * PAGE_SIZE
    /\ dev.memctl.used_emer = 16 * PAGE_SIZE
    /\ LinesStarting(call.buf, <<"Used", "object", "memory", "is">>)
           = << <<"Used", "object", "memory", "is", "17", "pages.">> >>
    /\ LinesStarting(call.buf, <<"Used", "emergency", "memory", "is">>)[1][6]
           = "bytes."

----------------------------------------------------------------------------
(* The wrappers and the state lock: C15, under MutexSpec.                  *)

\* a reader is inside the locked region of a wrapper: past mutex_lock and
\* not yet back from mutex_unlock
InWrapper(r) ==
    /\ TakesMutex(gen[r].f)
    /\ gen[r].pc \in {"body", "inc", "print", "dec", "return"}

\* C15: each of the five wrappers releases dev->struct_mutex before it
\* returns, by whichever return the generator inside it left: a reader holds
\* the lock exactly while it is inside a wrapper, so no reader holds it when
\* no call is executing, nor between two calls, and no two generations hold
\* it at once.
C15_WrappersReleaseLock ==
    /\ mutex \in {0} \cup Readers
    /\ \A r \in Readers : mutex = r <=> InWrapper(r)
    /\ (\A r \in Readers : gen[r].pc = "idle") => mutex = 0
    /\ \A r1, r2 \in Readers : InWrapper(r1) /\ InWrapper(r2) => r1 = r2

\* drm_clients_info is back from the early return of DRM_PROC_PRINT, the
\* other reader waits in mutex_lock, and the lock is free
C15_Witness ==
    /\ call.f = "drm_clients_info" /\ call.locked
    /\ Len(call.buf) > DRM_PROC_LIMIT /\ call.eof = 1
    /\ \E r \in Readers : gen[r].pc = "lock"
    /\ mutex = 0

----------------------------------------------------------------------------
(* The reference on a queue: C16, under LockSpec.                          *)

\* the generator of reader r is between the atomic_inc and the atomic_dec of
\* queue j
HoldsQueue(r, j) ==
    /\ gen[r].f = "drm_queues_info"
    /\ gen[r].pc \in {"print", "dec"}
    /\ gen[r].i = j

\* C16: drm__queues_info raises a queue's use_count before it reads the
\* queue and lowers it once after, on the early return past DRM_PROC_LIMIT
\* too: with nobody else at the queues, a queue's use_count is one above
\* what it was exactly while the generator is at that queue's row, and what
\* it was at every other time, the return of the call included.
C16_QueueReferenceBalanced ==
    \A j \in 1 .. Len(dev.queuelist) :
        dev.queuelist[j].use_count =
            Queue(j).use_count
            + (IF \E r \in Readers : HoldsQueue(r, j) THEN 1 ELSE 0)

\* the call has left by the early return of DRM_PROC_PRINT_RET in the row of
\* the last queue, whose use_count is what it was
C16_Witness ==
    /\ call.f = "drm_queues_info" /\ call.offset = 0
    /\ Len(call.buf) > DRM_PROC_LIMIT /\ call.eof = 1
    /\ call.walked = MaxQueues /\ Len(dev.queuelist) = MaxQueues
    /\ dev.queuelist[MaxQueues].use_count = Queue(MaxQueues).use_count

----------------------------------------------------------------------------
(* The length of the named-object listing: C17, under LockSpec.            *)

\* reader r is in drm_gem_name_info, in the walk of the registry or past it
InGemNames(r) ==
    gen[r].f = "drm_gem_name_info" /\ gen[r].pc \in {"walk", "return"}
    /\ gen[r].offset <= DRM_PROC_LIMIT

\* the bytes of the row a listing ends with: those after the line feed
\* before its last
LastRowLen(buf) ==
    LET feeds == {k \in 1 .. (Len(buf) - 1) : Char(buf, k) = "\n"} \cup {0}
    IN  Len(buf) - (CHOOSE k \in feeds : \A j \in feeds : j <= k)

\* the longest row "%6d%9zd%8d%9d\n" can give: three int fields of at
\* most 11 characters, a ssize_t field of at most 20, and the line feed
GemRowMax == 11 + 20 + 11 + 11 + 1

\* C17, as claimed: in every state of a named-object listing, during the
\* walk and after it, nid.len is at most DRM_PROC_LIMIT and no byte is
\* written past that limit.
C17_LengthWithinLimit ==
    \A r \in Readers :
        InGemNames(r) =>
            gen[r].nid.len <= DRM_PROC_LIMIT
            /\ Len(gen[r].nid.buf) <= DRM_PROC_LIMIT

\* C17, amended: nid.len counts the bytes written and stays below the
\* PAGE_SIZE of the buffer; it passes DRM_PROC_LIMIT by at most the length
\* of one row, the row whose sprintf came before the test: without that
\* row the listing is within the limit, be it exactly at it.  Then nid.eof
\* is set and nothing more is written.  A row is shorter than the bytes
\* DRM_PROC_LIMIT keeps back of the page.
C17_LengthWithinBuffer ==
    /\ DRM_PROC_LIMIT + GemRowMax < PAGE_SIZE
    /\ \A r \in Readers :
          InGemNames(r) =>
              /\ gen[r].nid.len = Len(gen[r].nid.buf)
              /\ gen[r].nid.len < PAGE_SIZE
              /\ gen[r].nid.len > DRM_PROC_LIMIT
                     <=> gen[r].nid.eof = 1
              /\ LastRowLen(gen[r].nid.buf) <= GemRowMax
              /\ gen[r].nid.len > DRM_PROC_LIMIT
                     => gen[r].nid.len - LastRowLen(gen[r].nid.buf)
                            <= DRM_PROC_LIMIT

\* the listing was exactly DRM_PROC_LIMIT long, rows of two lengths in
\* it, when one more row was written: the walk has passed the limit by
\* the whole of that row and has entries of the registry still to visit
C17_Witness ==
    /\ gen[READER].f = "drm_gem_name_info" /\ gen[READER].pc = "walk"
    /\ gen[READER].nid.eof = 1
    /\ gen[READER].nid.len - LastRowLen(gen[READER].nid.buf)
           = DRM_PROC_LIMIT
    /\ gen[READER].i <= Len(dev.object_name_idr)

----------------------------------------------------------------------------
(* Chunked reads beside mutation: C18, under TornSpec.                     *)

\* C18: dev->struct_mutex covers the body of one call of drm_clients_info
\* and no more.  What a call returns is the report of the device as it is
\* when the call returns, and between the calls of a chunked read the lock
\* is free, so that the list of clients can change there; the witness is a
\* read whose chunks, put together, are the full report of no state of the
\* device at all.
C18_LockCoversOneCall ==
    /\ (gen[READER].f = "drm_clients_info" /\ gen[READER].pc = "return")
           => /\ mutex = READER
              /\ gen[READER].res = read_proc("drm_clients_info", dev,
                                             gen[READER].offset,
                                             gen[READER].request)
    /\ (sess.active /\ gen[READER].pc = "idle") => mutex = 0

\* a chunked read is over, the clients changed between two of its calls,
\* and the bytes received are the full report of none of the states the
\* device can be in
C18_Witness ==
    /\ sess.done /\ sess.mutated /\ sess.calls >= 2
    /\ Len(sess.acc) > sess.k
    /\ \A d \in TornDevices : sess.acc # FullRead(sess.f, d)

----------------------------------------------------------------------------
(* No state between calls: C19, under MutexSpec.                           *)

\* the call reader r is about to return from
Returning(r) ==
    Called(gen[r].f, gen[r].offset, gen[r].request, gen[r].res)

\* C19: a call regenerates its report from position 0 out of the device as
\* it is and its own arguments, and nothing else.  Whatever calls the two
\* readers have made before and whatever these left on the stack, two
\* calls with the same offset and request on the unchanged device return
\* the same count, *eof and bytes: the call reader r is back from agrees
\* with the call that has just returned and with the call the other
\* reader is back from; and a call that went statement by statement, its
\* locals starting as the stack had them, returns what the generator
\* gives in one step for the device, the offset and the request.
C19_CallsKeepNoState ==
    \A r \in Readers :
        gen[r].pc = "return" =>
            /\ (call.f = gen[r].f /\ call.offset = gen[r].offset
                    /\ call.request = gen[r].request)
                   => Returning(r) = call
            /\ \A o \in Readers :
                  (gen[o].pc = "return" /\ gen[o].f = gen[r].f
                       /\ gen[o].offset = gen[r].offset
                       /\ gen[o].request = gen[r].request)
                      => gen[o].res = gen[r].res
            /\ gen[r].f \in {"drm_gem_name_info", "drm_gem_object_info",
                            "drm_queues_info"}
                   => gen[r].res = read_proc(gen[r].f, dev, gen[r].offset,
                                             gen[r].request)

\* a reader is back from drm_gem_name_info, called for 16 bytes at offset
\* 33, inside a listing that passes the limit, the other reader having
\* just made the same call
C19_Witness ==
    \E r \in Readers :
        /\ gen[r].pc = "return" /\ gen[r].f = "drm_gem_name_info"
        /\ gen[r].offset = 33 /\ gen[r].request = 16
        /\ gen[r].nid.eof = 1 /\ gen[r].res.ret = 16
        /\ call.f = "drm_gem_name_info" /\ call.offset = 33
        /\ call.request = 16 /\ call.ret = 16

----------------------------------------------------------------------------
(* The end of a chunked read: C20, under ReaderSpec.                       *)

\* C20: a reader that calls one generator with request k from offset 0,
\* moving on by the bytes returned, is given *eof after finitely many
\* calls, however the device changes between them: a call that does not
\* set *eof returns k bytes, so each call either ends the read or moves the
\* offset up by k; a call at an offset above DRM_PROC_LIMIT sets *eof; so
\* the calls are at most DRM_PROC_LIMIT \div k + 2, and the read ends.
C20_ReaderReachesEof ==
    /\ [](sess.active =>
            /\ sess.calls <= (DRM_PROC_LIMIT \div sess.k) + 2
            /\ sess.offset <= DRM_PROC_LIMIT + sess.k
            /\ (sess.calls > 0 /\ ~sess.done) => call.ret = sess.k)
    /\ [][(sess.active /\ sess'.active /\ sess'.calls > sess.calls)
             => (sess'.done \/ sess'.offset > sess.offset)]_vars
    /\ (sess.active ~> sess.done)

\* a read of gem_names in chunks of 64 bytes, the registry growing between
\* the calls, has run up to an offset above DRM_PROC_LIMIT and ended there
C20_Witness ==
    /\ sess.done /\ sess.mutated /\ sess.f = "drm_gem_name_info"
    /\ sess.k = 64 /\ sess.calls >= 3
    /\ call.offset > DRM_PROC_LIMIT /\ call.eof = 1 /\ call.ret = 0

----------------------------------------------------------------------------
(* The use count a queue's row shows: C21, under LockSpec.                 *)

\* the rows of a queues report: the lines after the header and its empty
\* line that have the five fields of a row
QueuesRows(buf) ==
    LET lines == TextLines(buf) IN
    SelectSeq([k \in 1 .. (Len(lines) - 2) |-> LineFields(lines[k + 2])],
              LAMBDA r : Len(r) = 5)

\* reader r is in drm__queues_info with the rows of gen[r].st.walked queues
\* printed
QueuesPrinted(r) ==
    /\ gen[r].f = "drm_queues_info" /\ gen[r].offset <= DRM_PROC_LIMIT
    /\ gen[r].pc \in {"dec", "inc", "return"}

\* C21: the use count in the row of a queue is read after the generator's
\* own atomic_inc: with nobody else at the queue, the row of queue j shows
\* one more than the use_count the queue had before the generator came to
\* it, and, until the atomic_dec that follows, what the queue then holds.
C21_RowShowsOwnReference ==
    \A r \in Readers :
        QueuesPrinted(r) =>
            \E rows \in {QueuesRows(gen[r].st.buf)} :
                /\ Len(rows) = gen[r].st.walked
                /\ \A j \in 1 .. Len(rows) :
                       ParseInt(rows[j][2]) = Queue(j).use_count + 1
                /\ gen[r].pc = "dec" =>
                       ParseInt(rows[gen[r].i][2])
                           = dev.queuelist[gen[r].i].use_count

\* the table of a device of MaxQueues - 1 queues is through and fits: the
\* row of the last queue shows one more than the queue holds again
C21_Witness ==
    /\ QueuesPrinted(READER) /\ gen[READER].pc = "return"
    /\ gen[READER].res.eof = 1 /\ gen[READER].offset = 0
    /\ Len(gen[READER].res.buf) <= DRM_PROC_LIMIT
    /\ gen[READER].st.walked = MaxQueues - 1
    /\ ParseInt(QueuesRows(gen[READER].res.buf)[MaxQueues - 1][2])
           = dev.queuelist[MaxQueues - 1].use_count + 1

----------------------------------------------------------------------------
(* The type tag of a mapping: C22, under Spec.                             *)

\* the rows of a vm report: the lines after the header and its empty line
\* that have the seven fields of a row
VmRows(buf) ==
    LET lines == TextLines(buf) IN
    SelectSeq([k \in 1 .. (Len(lines) - 2) |-> LineFields(lines[k + 2])],
              LAMBDA r : Len(r) = 7)

\* the mappings of the list that are there, in the order of the list
MapsThere(d) ==
    LET there == SelectSeq(d.maplist, LAMBDA r_list : r_list.map # << >>)
    IN  [k \in 1 .. Len(there) |-> there[k].map[1]]

\* the tag the table of _DRM_FRAME_BUFFER to _DRM_CONSISTENT gives a code
TagOf(code) ==
    CASE code = 0 -> "FB" [] code = 1 -> "REG" [] code = 2 -> "SHM"
      [] code = 3 -> "AGP" [] code = 4 -> "SG" [] code = 5 -> "PCI"
      [] OTHER -> "??"

\* a vm report read whole that fits under DRM_PROC_LIMIT
VmRead ==
    /\ call.f = "drm_vm_info" /\ call.offset = 0
    /\ call.request = PAGE_SIZE
    /\ Len(call.buf) <= DRM_PROC_LIMIT

\* C22: whatever the type code of a mapping, below 0 and above 5 too, the
\* table of six tags is indexed only by a code in 0..5 and the tag is "??"
\* otherwise; the row is printed all the same and the report runs to its
\* end: one row for each mapping that is there, with its tag, and *eof.
C22_TypeTagOrPlaceholder ==
    VmRead =>
        \E rows \in {VmRows(call.buf)}, maps \in {MapsThere(dev)} :
            /\ Len(rows) = Len(maps)
            /\ \A k \in 1 .. Len(rows) :
                   /\ ParseInt(rows[k][1]) = k - 1
                   /\ rows[k][4] = TagOf(maps[k].type)
            /\ call.eof = 1 /\ call.ret = Len(call.buf)

\* the table of a device with codes -1 and 6 beside 0 and 5 has been read
C22_Witness ==
    /\ VmRead /\ Len(dev.maplist) = 4
    /\ dev.maplist[1].map[1].type < 0 /\ dev.maplist[2].map[1].type > 5
    /\ VmRows(call.buf)[1][4] = "??" /\ VmRows(call.buf)[2][4] = "??"
    /\ VmRows(call.buf)[3][4] = "FB" /\ VmRows(call.buf)[4][4] = "PCI"

----------------------------------------------------------------------------
(* The state lock: C10, under LockSpec.                                    *)

\* C10, as claimed: every generator holds dev->struct_mutex all the time it
\* reads the device, the name, gem_names and gem_objects generators too.
C10_GeneratorsHoldMutex ==
    \A r \in Readers : gen[r].pc \in {"body", "walk", "obj"} => mutex = r

====
